---------------------------- MODULE Spec2Model ----------------------------
(***************************************************************************)
(* A model of the intersection / road rendering code of map_gui:           *)
(*   - the lazily filled per-object cache slots of DrawIntersection and    *)
(*     DrawRoad (draw, clear_rendering, the time-keyed signal overlay);    *)
(*   - the pure geometry calculators of render/intersection.rs              *)
(*     (calculate_corners, calculate_corner_curbs, calculate_border_arrows, *)
(*     stop_sign_geom, make_crosswalk, the crosswalk ownership rule of      *)
(*     DrawIntersection::render).                                           *)
(* Distances are integers in units of 0.0001 m, the resolution geom's       *)
(* Distance is trimmed to.  Points are <<x, y>> with y growing downwards    *)
(* (screen space) and the model's lines are axis-aligned, so that every     *)
(* perpendicular shift is exact.                                             *)
(***************************************************************************)
EXTENDS Integers, Sequences, FiniteSets, TLC

VARIABLES
    \* ---- the render cache (DrawIntersection, DrawRoad) ----
    draw_default,         \* object -> Option<Drawable>      (intersection.rs:20, road.rs:16)
    draw_traffic_signal,  \* intersection -> Option<(Time, Drawable)>   (intersection.rs:21)
    sim_time,             \* app.sim_time()
    map_gen,              \* generation (edit count) of the map data render reads
    traffic_signals,      \* intersections for which maybe_get_traffic_signal is Some
    \* ---- call-count instrumentation (history) ----
    render_calls,         \* object -> render() calls since construction / last clear
    draw_calls,           \* object -> draw() calls since construction / last clear
    signal_calls,         \* intersection -> draw_signal_stage calls at the current sim_time
    signal_draws,         \* intersection -> unsuppressed signal draws at the current sim_time
    last_op,              \* the operation that produced this state; for a draw the
                          \* drawables it handed to g.redraw, in order; for a clear
                          \* the slot content it dropped
    \* ---- the pure calculators ----
    inp,                  \* the input (an intersection of the map) of the calculator
    out,                  \* its result
    pc,                   \* "start" before the call, "done" after it
    \* ---- the game's CommonState (game/src/common/mod.rs:23-28) and its App ----
    common,               \* [info_panel : Option<InfoPanel>, cached_actions : Vec<Key>]
    app                   \* [primary : PerMap, secondary : Option<PerMap>, dev], a PerMap
                          \* being [layer : Option<Layer>, current_selection : Option<ID>]

vars == <<draw_default, draw_traffic_signal, sim_time, map_gen, traffic_signals,
          render_calls, draw_calls, signal_calls, signal_draws,
          last_op, inp, out, pc, common, app>>

\* The render cache and its instrumentation.
renderVars == <<draw_default, draw_traffic_signal, sim_time, map_gen, traffic_signals,
                render_calls, draw_calls, signal_calls, signal_draws,
                last_op>>

\* What a call of a calculator leaves alone.
cacheVars == <<renderVars, common, app>>

\* What a draw or a clear of the render cache leaves alone.
pureVars == <<inp, out, pc, common, app>>

(***************************************************************************)
(* Option<T>: None is the empty sequence, Some(v) the one-element sequence. *)
(***************************************************************************)
None == <<>>

Some(v) == <<v>>

IsNone(o) == o = <<>>

Unwrap(o) == o[1]

-----------------------------------------------------------------------------
(***************************************************************************)
(* Bounds of the model.                                                     *)
(***************************************************************************)
MaxDraws == 2

MaxTime == 1

MaxEdits == 1

\* Sidewalk corners (pairs of lanes joined by turns) per intersection.
MaxPairs == 2

\* Roads connected to an intersection.
MaxRoads == 2

\* Crosswalk turns per intersection.
MaxCrossings == 3

\* Lanes of the road at a border intersection.
MaxBorderLanes == 2

MaxStopRoads == 2

Intersections == {"i1", "i2"}

Roads == {"r1"}

Objects == Intersections \cup Roads

-----------------------------------------------------------------------------
(***************************************************************************)
(* Geometry primitives (the geom crate, as the renderer uses it).  Points   *)
(* are <<x, y>>, y grows downwards; a Line is [pt1, pt2] with pt1 # pt2, a  *)
(* PolyLine a sequence of at least two points; both axis-aligned here.      *)
(***************************************************************************)
Sgn(n) == IF n > 0 THEN 1 ELSE IF n < 0 THEN -1 ELSE 0

Abs(n) == IF n < 0 THEN -n ELSE n

Min(a, b) == IF a <= b THEN a ELSE b

PtAdd(p, q) == <<p[1] + q[1], p[2] + q[2]>>

PtScale(k, v) == <<k * v[1], k * v[2]>>

\* The unit heading from p to q (Line::angle, for an axis-aligned line).
Heading(p, q) == <<Sgn(q[1] - p[1]), Sgn(q[2] - p[2])>>

\* angle.rotate_degs(90): in screen space the heading's right-hand side.
RightOf(h) == <<0 - h[2], h[1]>>

\* angle.opposite()
Opposite(h) == <<0 - h[1], 0 - h[2]>>

\* pt.project_away(dist, heading)
project_away(p, dist, h) == PtAdd(p, PtScale(dist, h))

Line_new(p, q) == [pt1 |-> p, pt2 |-> q]

Line_angle(l) == Heading(l.pt1, l.pt2)

Line_length(l) == Abs(l.pt2[1] - l.pt1[1]) + Abs(l.pt2[2] - l.pt1[2])

\* Line::shift_right(width)
Line_shift_right(l, width) ==
    Line_new(project_away(l.pt1, width, RightOf(Line_angle(l))),
             project_away(l.pt2, width, RightOf(Line_angle(l))))

\* Line::shift_left(width)
Line_shift_left(l, width) ==
    Line_new(project_away(l.pt1, width, Opposite(RightOf(Line_angle(l)))),
             project_away(l.pt2, width, Opposite(RightOf(Line_angle(l)))))

\* Line::shift_either_direction(width): right when width >= 0, left otherwise
Line_shift_either_direction(l, width) ==
    IF width >= 0 THEN Line_shift_right(l, width) ELSE Line_shift_left(l, 0 - width)

\* Line::reverse()
Line_reverse(l) == Line_new(l.pt2, l.pt1)

\* Line::unbounded_dist_along(dist): may leave the segment on either side
Line_unbounded_dist_along(l, dist) == project_away(l.pt1, dist, Line_angle(l))

\* The right-hand normal of the k-th segment of a polyline.
SegRight(pts, k) == RightOf(Heading(pts[k], pts[k + 1]))

\* The k-th point of the polyline shifted sideways by d (d > 0: to the
\* right), consecutive shifted segments meeting in a mitred corner.
ShiftedPt(pts, k, d) ==
    IF k = 1 THEN project_away(pts[1], d, SegRight(pts, 1))
    ELSE IF k = Len(pts) THEN project_away(pts[k], d, SegRight(pts, k - 1))
    ELSE IF SegRight(pts, k - 1) = SegRight(pts, k)
           THEN project_away(pts[k], d, SegRight(pts, k))
           ELSE project_away(project_away(pts[k], d, SegRight(pts, k - 1)),
                             d, SegRight(pts, k))

ShiftedPts(pts, d) == [k \in 1..Len(pts) |-> ShiftedPt(pts, k, d)]

\* PolyLine::shift_either_direction(d) -> Result<PolyLine>: Err (None) when
\* the shifted line is degenerate, i.e. a segment collapsed or flipped.
PolyLine_shift_either_direction(pts, d) ==
    IF \A k \in 1..(Len(pts) - 1) :
           Heading(ShiftedPts(pts, d)[k], ShiftedPts(pts, d)[k + 1])
               = Heading(pts[k], pts[k + 1])
      THEN Some(ShiftedPts(pts, d))
      ELSE None

\* PolyLine::shift_right(width) -> Result<PolyLine>
PolyLine_shift_right(pts, width) == PolyLine_shift_either_direction(pts, width)

\* PolyLine::shift_left(width) -> Result<PolyLine>
PolyLine_shift_left(pts, width) == PolyLine_shift_either_direction(pts, 0 - width)

\* PolyLine::reversed()
reversed(pts) == [k \in 1..Len(pts) |-> pts[Len(pts) + 1 - k]]

\* PolyLine::length()
PolyLine_length(pts) ==
    LET RECURSIVE total(_)
        total(k) == IF k >= Len(pts) THEN 0
                    ELSE Line_length(Line_new(pts[k], pts[k + 1])) + total(k + 1)
    IN total(1)

\* PolyLine::make_polygons(width): the polyline thickened to width
make_polygons(pts, width) == [kind |-> "thick", pts |-> pts, width |-> width]

\* Polygon::buggy_new(pts): triangulates any point loop, never fails
Polygon_buggy_new(pts) == [kind |-> "loop", pts |-> pts, width |-> 0]

\* Ring::new(pts) -> Result<Ring>: a closed loop of at least three points
\* that repeats no point but the first as the last.
Ring_new(pts) ==
    IF /\ Len(pts) >= 3
       /\ pts[1] = pts[Len(pts)]
       /\ \A j, k \in 1..(Len(pts) - 1) : j # k => pts[j] # pts[k]
      THEN Some(pts)
      ELSE None

\* Distance / n, trimmed to the nearest 0.0001 m
DivRound(d, n) == (2 * d + n) \div (2 * n)

\* Distance / 2.0
Half(width) == DivRound(width, 2)

\* Ring::into_polygon()
into_polygon(ring) == [kind |-> "ring", pts |-> ring, width |-> 0]

\* Distance / 2.0 (the model's widths are even)

-----------------------------------------------------------------------------
(***************************************************************************)
(* calculate_corners.  Its input i is an intersection with what the map     *)
(* gives for it: i.id, i.footway (is_footway), i.roads, i.lanes (lane id -> *)
(* [width, dst_i, first_line, last_line]) and i.turns, the sequence         *)
(* get_turns_in_intersection yields, each turn being                        *)
(* [id |-> [src, dst], turn_type, geom, other_crosswalk_ids].               *)
(***************************************************************************)
owned_Always(i, turn) == TRUE

\* map.get_l(turn.id.src).dst_i == i.id  ("Avoid double-rendering")
owned(i, turn) == i.lanes[turn.id.src].dst_i = i.id

dead_end_corner_SrcWidth(turn, l1, l2) == make_polygons(turn.geom, l1.width)

\* turn.geom.make_polygons(l1.width.min(l2.width))
dead_end_corner(turn, l1, l2) == make_polygons(turn.geom, Min(l1.width, l2.width))

equal_width_corner_Swapped(turn, l1, l2) ==
    LET width == l1.width
        left == PolyLine_shift_left(turn.geom, Half(width))
        right == PolyLine_shift_right(turn.geom, Half(width))
    IN  IF IsNone(left) \/ IsNone(right) THEN None
        ELSE LET pts == Unwrap(left)
                        \o <<Line_shift_right(l2.first_line, Half(width)).pt1,
                             Line_shift_left(l2.first_line, Half(width)).pt1>>
                        \o reversed(Unwrap(right))
                        \o <<Line_shift_right(l1.last_line, Half(width)).pt2,
                             Line_shift_left(l1.last_line, Half(width)).pt2>>
             IN  Some(Polygon_buggy_new(Append(pts, pts[1])))

\* The closure of the equal-width case: None as soon as a shift fails.
equal_width_corner(turn, l1, l2) ==
    LET width == l1.width
        left == PolyLine_shift_left(turn.geom, Half(width))
        right == PolyLine_shift_right(turn.geom, Half(width))
    IN  IF IsNone(left) THEN None
        ELSE IF IsNone(right) THEN None
        ELSE LET pts == Unwrap(left)
                        \o <<Line_shift_left(l2.first_line, Half(width)).pt1,
                             Line_shift_right(l2.first_line, Half(width)).pt1>>
                        \o reversed(Unwrap(right))
                        \o <<Line_shift_right(l1.last_line, Half(width)).pt2,
                             Line_shift_left(l1.last_line, Half(width)).pt2>>
             IN  Some(Polygon_buggy_new(Append(pts, pts[1])))

\* The unequal-width case: a quadrilateral, kept only if it is a Ring.
unequal_width_corner(turn, l1, l2) ==
    LET pts == <<Line_shift_left(l2.first_line, Half(l2.width)).pt1,
                 Line_shift_right(l2.first_line, Half(l2.width)).pt1,
                 Line_shift_right(l1.last_line, Half(l1.width)).pt2,
                 Line_shift_left(l1.last_line, Half(l1.width)).pt2>>
        ring == Ring_new(Append(pts, pts[1]))
    IN  IF IsNone(ring) THEN None ELSE Some(into_polygon(Unwrap(ring)))

\* One iteration of the loop over the turns: the polygons it pushes.
corner_of_turn(i, turn) ==
    IF turn.turn_type # "SharedSidewalkCorner" THEN <<>>
    ELSE IF ~owned(i, turn) THEN <<>>
    ELSE LET l1 == i.lanes[turn.id.src]
             l2 == i.lanes[turn.id.dst]
         IN  IF Cardinality(i.roads) = 1 THEN <<dead_end_corner(turn, l1, l2)>>
             ELSE IF l1.width = l2.width THEN equal_width_corner(turn, l1, l2)
             ELSE unequal_width_corner(turn, l1, l2)

RECURSIVE corners_loop_AbortOnFailure(_, _)
corners_loop_AbortOnFailure(i, k) ==
    IF k > Len(i.turns) THEN <<>>
    ELSE IF /\ i.turns[k].turn_type = "SharedSidewalkCorner"
            /\ owned(i, i.turns[k])
            /\ corner_of_turn(i, i.turns[k]) = <<>>
           THEN <<>>
           ELSE corner_of_turn(i, i.turns[k]) \o corners_loop_AbortOnFailure(i, k + 1)

\* for turn in map.get_turns_in_intersection(i.id), from the k-th turn on
RECURSIVE corners_loop(_, _)
corners_loop(i, k) ==
    IF k > Len(i.turns) THEN <<>>
    ELSE corner_of_turn(i, i.turns[k]) \o corners_loop(i, k + 1)

calculate_corners(i) == IF i.footway THEN <<>> ELSE corners_loop(i, 1)

-----------------------------------------------------------------------------
(***************************************************************************)
(* calculate_corner_curbs, on the same intersections as calculate_corners,  *)
(* with the map's driving side.                                             *)
(***************************************************************************)

\* let thickness = Distance::meters(0.2)
curb_thickness == 2000

\* let shift = |width| (width - thickness) / 2.0
curb_shift(width) == DivRound(width - curb_thickness, 2)

curb_width_NoFlip(width, driving_side) == curb_shift(width)

\* shift(width), times -1.0 under DrivingSide::Right
curb_width(width, driving_side) ==
    IF driving_side = "Right" THEN 0 - curb_shift(width) ELSE curb_shift(width)

\* PolyLine::deduping_new(pts) -> Result<PolyLine>: adjacent repeated points
\* dropped; an Err when fewer than two points are left.
deduping_new(pts) ==
    LET RECURSIVE dedupe(_)
        dedupe(k) == IF k > Len(pts) THEN <<>>
                     ELSE IF k > 1 /\ pts[k] = pts[k - 1] THEN dedupe(k + 1)
                     ELSE <<pts[k]>> \o dedupe(k + 1)
    IN  IF Len(dedupe(1)) < 2 THEN None ELSE Some(dedupe(1))

\* The equal-width case: the shifted turn geometry, run out by the
\* thickness into both lanes.
equal_width_curb(turn, l1, l2, driving_side) ==
    LET width == curb_width(l1.width, driving_side)
        shifted == PolyLine_shift_either_direction(turn.geom, width)
        shifted_first == Line_shift_either_direction(l2.first_line, width)
        shifted_last == Line_reverse(Line_shift_either_direction(l1.last_line, width))
    IN  IF IsNone(shifted) THEN <<>>
        ELSE LET pl == deduping_new(
                     <<Line_unbounded_dist_along(shifted_last, curb_thickness),
                       shifted_last.pt1>>
                     \o Unwrap(shifted)
                     \o <<shifted_first.pt1,
                          Line_unbounded_dist_along(shifted_first, curb_thickness)>>)
             IN  IF IsNone(pl) THEN <<>>
                 ELSE <<make_polygons(Unwrap(pl), curb_thickness)>>

\* The unequal-width case: the two shifted lane ends joined directly.
unequal_width_curb(turn, l1, l2, driving_side) ==
    LET shifted_last == Line_shift_either_direction(
                            l1.last_line, curb_width(l1.width, driving_side))
        shifted_first == Line_shift_either_direction(
                             l2.first_line, curb_width(l2.width, driving_side))
        pl == deduping_new(
                  <<Line_unbounded_dist_along(Line_reverse(shifted_last),
                                              curb_thickness),
                    shifted_last.pt2,
                    shifted_first.pt1,
                    Line_unbounded_dist_along(shifted_first, curb_thickness)>>)
    IN  IF IsNone(pl) THEN <<>> ELSE <<make_polygons(Unwrap(pl), curb_thickness)>>

\* One iteration of the loop over the turns: the polygons it pushes.
curb_of_turn(i, turn, driving_side) ==
    IF turn.turn_type # "SharedSidewalkCorner" THEN <<>>
    ELSE IF i.lanes[turn.id.src].dst_i # i.id THEN <<>>
    ELSE LET l1 == i.lanes[turn.id.src]
             l2 == i.lanes[turn.id.dst]
         IN  IF l1.width = l2.width
               THEN equal_width_curb(turn, l1, l2, driving_side)
               ELSE unequal_width_curb(turn, l1, l2, driving_side)

\* for turn in map.get_turns_in_intersection(i.id), from the k-th turn on
RECURSIVE curbs_loop(_, _, _)
curbs_loop(i, driving_side, k) ==
    IF k > Len(i.turns) THEN <<>>
    ELSE curb_of_turn(i, i.turns[k], driving_side)
         \o curbs_loop(i, driving_side, k + 1)

calculate_corner_curbs(i, driving_side) ==
    IF i.footway THEN <<>> ELSE curbs_loop(i, driving_side, 1)

-----------------------------------------------------------------------------
(***************************************************************************)
(* The crosswalk loop of DrawIntersection::render.                          *)
(***************************************************************************)

\* TurnID's derived order within one intersection: by src, then by dst.
turn_id_lt(a, b) == a.src < b.src \/ (a.src = b.src /\ a.dst < b.dst)

renders_crosswalk_Largest(turn) ==
    /\ turn.turn_type = "Crosswalk"
    /\ ~\E id \in turn.other_crosswalk_ids : turn_id_lt(turn.id, id)

\* turn.turn_type == TurnType::Crosswalk
\*     && !turn.other_crosswalk_ids.iter().any(|id| *id < turn.id)
renders_crosswalk(turn) ==
    /\ turn.turn_type = "Crosswalk"
    /\ ~\E id \in turn.other_crosswalk_ids : turn_id_lt(id, turn.id)

\* The turns make_crosswalk is called for, in the order of the loop.
RECURSIVE crosswalk_loop(_, _)
crosswalk_loop(i, k) ==
    IF k > Len(i.turns) THEN <<>>
    ELSE (IF renders_crosswalk(i.turns[k]) THEN <<i.turns[k].id>> ELSE <<>>)
         \o crosswalk_loop(i, k + 1)

-----------------------------------------------------------------------------
(***************************************************************************)
(* calculate_border_arrows.  i is [id, incoming_lanes, outgoing_lanes], r   *)
(* is [src_i, dst_i, lanes_ltr (a sequence of [id, dir]), width (lane id -> *)
(* width), dir_change_pl (what get_dir_change_pl returns)].                 *)
(***************************************************************************)

\* Accumulate the widths of the lanes of one direction.
RECURSIVE directional_width(_, _, _)
directional_width(r, dir, k) ==
    IF k > Len(r.lanes_ltr) THEN 0
    ELSE (IF r.lanes_ltr[k].dir = dir THEN r.width[r.lanes_ltr[k].id] ELSE 0)
         + directional_width(r, dir, k + 1)

\* PolyLine::first_line()
first_line(pts) == Line_new(pts[1], pts[2])

\* PolyLine::last_line()
last_line(pts) == Line_new(pts[Len(pts) - 1], pts[Len(pts)])

\* PolyLine::make_arrow(thickness, ArrowCap::Triangle) of a two-point line
make_arrow(pts, thickness) == [kind |-> "arrow", pts |-> pts, width |-> thickness]

road_bound_arrows_FwdOnly(i, r) ==
    LET width_fwd == directional_width(r, "Fwd", 1)
        center == r.dir_change_pl
        line == IF r.dst_i = i.id
                  THEN Line_reverse(Line_shift_left(last_line(center),
                                                    Half(width_fwd)))
                  ELSE Line_shift_right(first_line(center), Half(width_fwd))
    IN  IF i.outgoing_lanes # {}
          THEN <<make_arrow(<<Line_unbounded_dist_along(line, -95000),
                              Line_unbounded_dist_along(line, -5000)>>,
                            DivRound(width_fwd, 3))>>
          ELSE <<>>

\* "These arrows should point from the void to the road"
road_bound_arrows(i, r) ==
    LET width_fwd == directional_width(r, "Fwd", 1)
        width_back == directional_width(r, "Back", 1)
        center == r.dir_change_pl
        line == IF r.dst_i = i.id
                  THEN Line_reverse(Line_shift_left(last_line(center),
                                                    Half(width_back)))
                  ELSE Line_shift_right(first_line(center), Half(width_fwd))
        width == IF r.dst_i = i.id THEN width_back ELSE width_fwd
    IN  IF i.outgoing_lanes # {}
          THEN <<make_arrow(<<Line_unbounded_dist_along(line, -95000),
                              Line_unbounded_dist_along(line, -5000)>>,
                            DivRound(width, 3))>>
          ELSE <<>>

void_bound_arrows_CopyPaste(i, r) ==
    LET width_fwd == directional_width(r, "Fwd", 1)
        width_back == directional_width(r, "Back", 1)
        center == r.dir_change_pl
        line == IF r.dst_i = i.id
                  THEN Line_reverse(Line_shift_right(last_line(center),
                                                     Half(width_fwd)))
                  ELSE Line_shift_left(first_line(center), Half(width_back))
        width == IF r.dst_i = i.id THEN width_fwd ELSE width_back
    IN  IF i.outgoing_lanes # {}
          THEN <<make_arrow(<<Line_unbounded_dist_along(line, -5000),
                              Line_unbounded_dist_along(line, -95000)>>,
                            DivRound(width, 3))>>
          ELSE <<>>

\* "These arrows should point from the road to the void"
void_bound_arrows(i, r) ==
    LET width_fwd == directional_width(r, "Fwd", 1)
        width_back == directional_width(r, "Back", 1)
        center == r.dir_change_pl
        line == IF r.dst_i = i.id
                  THEN Line_reverse(Line_shift_right(last_line(center),
                                                     Half(width_fwd)))
                  ELSE Line_shift_left(first_line(center), Half(width_back))
        width == IF r.dst_i = i.id THEN width_fwd ELSE width_back
    IN  IF i.incoming_lanes # {}
          THEN <<make_arrow(<<Line_unbounded_dist_along(line, -5000),
                              Line_unbounded_dist_along(line, -95000)>>,
                            DivRound(width, 3))>>
          ELSE <<>>

calculate_border_arrows(i, r) == road_bound_arrows(i, r) \o void_bound_arrows(i, r)

-----------------------------------------------------------------------------
(***************************************************************************)
(* DrawIntersection::stop_sign_geom.  edge_lane is [lane_center_pts,         *)
(* width]; the result is [aborted, value]: value is the Option the function  *)
(* returns, aborted tells that a geom call panicked before it returned.      *)
(***************************************************************************)

\* geom::EPSILON_DIST, 0.0001 m
EPSILON_DIST == 1

\* let trim_back = Distance::meters(0.1)
trim_back == 1000

\* The arc length at which the k-th point of a polyline lies.
RECURSIVE dist_of_pt(_, _)
dist_of_pt(pts, k) ==
    IF k = 1 THEN 0
    ELSE dist_of_pt(pts, k - 1) + Line_length(Line_new(pts[k - 1], pts[k]))

\* PolyLine::dist_along(dist), for 0 <= dist <= length: the point there.
PolyLine_dist_along(pts, dist) ==
    LET k == CHOOSE j \in 1..(Len(pts) - 1) :
                 /\ dist_of_pt(pts, j + 1) >= dist
                 /\ \A x \in 1..(j - 1) : dist_of_pt(pts, x + 1) < dist
    IN  project_away(pts[k], dist - dist_of_pt(pts, k), Heading(pts[k], pts[k + 1]))

\* PolyLine::maybe_exact_slice(start, end): the points of the polyline from
\* arc length start to arc length end; an Err for a range of at most
\* EPSILON_DIST or one that leaves the polyline.
maybe_exact_slice(pts, start, end) ==
    LET RECURSIVE inner(_)
        inner(k) == IF k >= Len(pts) THEN <<>>
                    ELSE (IF start < dist_of_pt(pts, k) /\ dist_of_pt(pts, k) < end
                            THEN <<pts[k]>> ELSE <<>>) \o inner(k + 1)
    IN  IF start < 0 \/ end - start <= EPSILON_DIST \/ end > PolyLine_length(pts)
          THEN None
          ELSE Some(<<PolyLine_dist_along(pts, start)>> \o inner(2)
                    \o <<PolyLine_dist_along(pts, end)>>)

\* make_octagon(center, radius, facing)
make_octagon(center, radius, facing) ==
    [kind |-> "octagon", center |-> center, radius |-> radius, facing |-> facing]

no_room_Strict(edge_lane) ==
    PolyLine_length(edge_lane.lane_center_pts) - trim_back < EPSILON_DIST

\* edge_lane.length() - trim_back <= EPSILON_DIST
no_room(edge_lane) ==
    PolyLine_length(edge_lane.lane_center_pts) - trim_back <= EPSILON_DIST

\* if driving_side == DrivingSide::Right { last_line.shift_right(edge_lane.width) }
\* else { last_line.shift_left(edge_lane.width) }
sign_line(line, edge_lane, driving_side) ==
    IF driving_side = "Right"
      THEN Line_shift_right(line, edge_lane.width)
      ELSE Line_shift_left(line, edge_lane.width)

stop_sign_geom(edge_lane, driving_side) ==
    IF no_room(edge_lane)
      THEN [aborted |-> FALSE, value |-> None]
      ELSE LET slice == maybe_exact_slice(
                            edge_lane.lane_center_pts, 0,
                            PolyLine_length(edge_lane.lane_center_pts) - trim_back)
           IN  IF IsNone(slice)
                 THEN [aborted |-> TRUE, value |-> None]
                 ELSE LET shifted == sign_line(last_line(Unwrap(slice)),
                                               edge_lane, driving_side)
                          behind == Opposite(Line_angle(shifted))
                      IN  [aborted |-> FALSE,
                           value |-> Some(
                               [octagon |-> make_octagon(shifted.pt2, 10000,
                                                         Line_angle(shifted)),
                                pole |-> make_polygons(
                                    <<project_away(shifted.pt2, 15000, behind),
                                      project_away(shifted.pt2, 9000, behind)>>,
                                    3000),
                                angle |-> Line_angle(shifted)])]

-----------------------------------------------------------------------------
(***************************************************************************)
(* make_crosswalk and make_rainbow_crosswalk.  turn is [geom], the points   *)
(* of the turn's polyline; map is what the map gives for the turn:          *)
(* [node, way, width], the original node id of the parent intersection, the *)
(* original way id of the source lane's road and the source lane's width.   *)
(* A batch is the sequence of [color, poly] pushed so far.  The result is   *)
(* [batch, aborted, asked]: aborted tells that a geom call panicked, asked  *)
(* lists the distances handed to line.dist_along, in order.                 *)
(***************************************************************************)
\* map_model::SIDEWALK_THICKNESS
SIDEWALK_THICKNESS == 5000

\* render::CROSSWALK_LINE_THICKNESS
CROSSWALK_LINE_THICKNESS == 1500

\* Line::new(pt1, pt2) -> Option<Line>: None when the points coincide
Line_maybe_new(p, q) == IF p = q THEN None ELSE Some(Line_new(p, q))

\* Line::dist_along(dist) -> Result<Pt2D>: Err outside the segment
Line_dist_along(l, dist) ==
    IF dist < 0 \/ dist > Line_length(l) THEN None
    ELSE Some(project_away(l.pt1, dist, Line_angle(l)))

\* perp_line(l, length): the segment of that length across l at l.pt1
perp_line(l, length) ==
    Line_new(Line_shift_right(l, Half(length)).pt1,
             Line_shift_left(l, Half(length)).pt1)

\* Line::make_polygons(thickness)
Line_make_polygons(l, thickness) == make_polygons(<<l.pt1, l.pt2>>, thickness)

\* The (node, way) pairs the match of make_rainbow_crosswalk lists.
RainbowList ==
    { <<53073255, 428246441>>, <<53073255, 332601014>>,
      <<53073254, 6447455>>,   <<53073254, 607690679>>,
      <<53168934, 6456052>>,
      <<53200834, 6456052>>,
      <<53068795, 607691081>>, <<53068795, 65588105>>,
      <<53068794, 65588105>> }

on_rainbow_list_NodeOnly(node, way) == node \in {p[1] : p \in RainbowList}

\* match (node, way) { listed pairs => {} _ => return false }
on_rainbow_list(node, way) == <<node, way>> \in RainbowList

\* let colors = vec![..]
rainbow_colors ==
    <<"WHITE", "RED", "ORANGE", "YELLOW", "GREEN", "BLUE", "#8B00FF", "WHITE">>

\* The loop of make_rainbow_crosswalk over colors from index idx (0-based).
RECURSIVE rainbow_loop(_, _, _, _)
rainbow_loop(acc, slice, band_width, idx) ==
    IF idx >= Len(rainbow_colors) THEN acc
    ELSE LET band == PolyLine_shift_right(slice, band_width * idx)
         IN  IF IsNone(band) THEN [acc EXCEPT !.aborted = TRUE]
             ELSE rainbow_loop(
                      [acc EXCEPT !.batch = Append(@,
                           [color |-> rainbow_colors[idx + 1],
                            poly |-> make_polygons(Unwrap(band), band_width)])],
                      slice, band_width, idx + 1)

\* make_rainbow_crosswalk(batch, turn, map) -> bool, as [drawn, batch, aborted]
make_rainbow_crosswalk(batch, turn, map) ==
    IF ~on_rainbow_list(map.node, map.way)
      THEN [drawn |-> FALSE, batch |-> batch, aborted |-> FALSE]
      ELSE LET total_width == map.width
               band_width == DivRound(total_width, Len(rainbow_colors))
               cut == maybe_exact_slice(turn.geom, total_width,
                                        PolyLine_length(turn.geom) - total_width)
           IN  IF IsNone(cut)
                 THEN [drawn |-> FALSE, batch |-> batch, aborted |-> TRUE]
                 ELSE LET slice == PolyLine_shift_left(Unwrap(cut),
                                       Half(total_width) - Half(band_width))
                      IN  IF IsNone(slice)
                            THEN [drawn |-> FALSE, batch |-> batch, aborted |-> TRUE]
                            ELSE rainbow_loop(
                                     [drawn |-> TRUE, batch |-> batch, aborted |-> FALSE],
                                     Unwrap(slice), band_width, 0)

\* let boundary = width
boundary == SIDEWALK_THICKNESS

\* let tile_every = width * 0.6
tile_every == DivRound(SIDEWALK_THICKNESS * 6, 10)

has_room_OrZero(available_length) == available_length >= 0

\* if available_length > Distance::ZERO
has_room(available_length) == available_length > 0

\* (available_length / tile_every).floor() as usize
num_markings(available_length) == available_length \div tile_every

first_dist_along_AtBoundary(available_length) == boundary

\* boundary + (available_length - tile_every * num_markings) / 2.0
first_dist_along(available_length) ==
    boundary + Half(available_length - tile_every * num_markings(available_length))

\* One stripe: perp_line(Line::must_new(pt, pt.project_away(1 m, line.angle())),
\* width).make_polygons(CROSSWALK_LINE_THICKNESS)
stripe(pt, line) ==
    [color |-> "general_road_marking",
     poly |-> Line_make_polygons(
                  perp_line(Line_new(pt, project_away(pt, 10000, Line_angle(line))),
                            SIDEWALK_THICKNESS),
                  CROSSWALK_LINE_THICKNESS)]

\* for _ in 0..=num_markings { .. }, with left iterations still to run
RECURSIVE stripes_loop(_, _, _, _)
stripes_loop(acc, line, dist_along, left) ==
    IF left = 0 THEN acc
    ELSE LET pt1 == Line_dist_along(line, dist_along)
             second == dist_along + 2 * CROSSWALK_LINE_THICKNESS
             pt3 == Line_dist_along(line, second)
         IN  IF IsNone(pt1)
               THEN [acc EXCEPT !.aborted = TRUE, !.asked = Append(@, dist_along)]
             ELSE IF IsNone(pt3)
               THEN [batch |-> Append(acc.batch, stripe(Unwrap(pt1), line)),
                     aborted |-> TRUE,
                     asked |-> acc.asked \o <<dist_along, second>>]
             ELSE stripes_loop(
                      [batch |-> acc.batch \o <<stripe(Unwrap(pt1), line),
                                                stripe(Unwrap(pt3), line)>>,
                       aborted |-> FALSE,
                       asked |-> acc.asked \o <<dist_along, second>>],
                      line, dist_along + tile_every, left - 1)

\* The standard striping of make_crosswalk, after the rainbow test.
standard_crosswalk(batch, turn) ==
    LET pts == turn.geom
        unchanged == [batch |-> batch, aborted |-> FALSE, asked |-> <<>>]
    IN  IF Len(pts) < 3 THEN unchanged
        ELSE LET l == Line_maybe_new(pts[2], pts[3])
             IN  IF IsNone(l) THEN unchanged
                 ELSE LET line == Unwrap(l)
                          available_length == Line_length(line) - boundary * 2
                      IN  IF has_room(available_length)
                            THEN stripes_loop(unchanged, line,
                                              first_dist_along(available_length),
                                              num_markings(available_length) + 1)
                            ELSE unchanged

\* make_crosswalk(batch, turn, map, cs)
make_crosswalk(batch, turn, map) ==
    LET rainbow == make_rainbow_crosswalk(batch, turn, map)
    IN  IF rainbow.aborted \/ rainbow.drawn
          THEN [batch |-> rainbow.batch, aborted |-> rainbow.aborted, asked |-> <<>>]
          ELSE standard_crosswalk(batch, turn)

-----------------------------------------------------------------------------
(***************************************************************************)
(* DrawIntersection::get_unzoomed_outline.  i is [id, polygon, roads]: the  *)
(* polygon is [ring], the Option get_outer_ring returns (a ring's points    *)
(* repeat the first point as the last), roads the set of road ids (numbers, *)
(* iterated in increasing order); map.r gives for a road id                 *)
(* [src_i, center_pts, half_width].  The result is [aborted, value]: value  *)
(* the Vec<PolyLine> returned, aborted tells that a geom call panicked.     *)
(***************************************************************************)
\* Pt2D::approx_eq(other, threshold): the distance between them is at most
\* the threshold (a threshold of at most 1 m keeps the squares small)
Pt_approx_eq(p, q, threshold) ==
    /\ Abs(p[1] - q[1]) <= threshold
    /\ Abs(p[2] - q[2]) <= threshold
    /\ (p[1] - q[1]) * (p[1] - q[1]) + (p[2] - q[2]) * (p[2] - q[2])
           <= threshold * threshold

\* let epsilon = Distance::meters(0.1)
outline_epsilon == 1000

approx_eq_SameOrder(pair1, pair2) ==
    Pt_approx_eq(pair1[1], pair2[1], outline_epsilon)
        /\ Pt_approx_eq(pair1[2], pair2[2], outline_epsilon)

\* approx_eq(pair1, pair2)
approx_eq(pair1, pair2) ==
    \/ Pt_approx_eq(pair1[1], pair2[1], outline_epsilon)
           /\ Pt_approx_eq(pair1[2], pair2[2], outline_epsilon)
    \/ Pt_approx_eq(pair1[1], pair2[2], outline_epsilon)
           /\ Pt_approx_eq(pair1[2], pair2[1], outline_epsilon)

road_pair_AlwaysLast(i, road) ==
    LET left == PolyLine_shift_left(road.center_pts, road.half_width)
        right == PolyLine_shift_right(road.center_pts, road.half_width)
    IN  IF IsNone(left) \/ IsNone(right) THEN None
        ELSE Some(<<Unwrap(left)[Len(Unwrap(left))],
                    Unwrap(right)[Len(Unwrap(right))]>>)

\* The closure of road_pairs for one road: Some((left, right)), or None when
\* must_shift_left / must_shift_right panics.
road_pair(i, road) ==
    LET left == PolyLine_shift_left(road.center_pts, road.half_width)
        right == PolyLine_shift_right(road.center_pts, road.half_width)
    IN  IF IsNone(left) \/ IsNone(right) THEN None
        ELSE IF road.src_i = i.id
          THEN Some(<<Unwrap(left)[1], Unwrap(right)[1]>>)
          ELSE Some(<<Unwrap(left)[Len(Unwrap(left))],
                      Unwrap(right)[Len(Unwrap(right))]>>)

\* BTreeSet::iter(): the ids in increasing order
RECURSIVE iter(_)
iter(ids) ==
    IF ids = {} THEN <<>>
    ELSE LET m == CHOOSE x \in ids : \A y \in ids : x <= y
         IN  <<m>> \o iter(ids \ {m})

\* road_pairs: i.roads.iter().map(..).collect()
road_pairs(i, map) ==
    [k \in 1..Cardinality(i.roads) |-> road_pair(i, map.r[iter(i.roads)[k]])]

\* slice.windows(2)
windows2(pts) == [k \in 1..(Len(pts) - 1) |-> <<pts[k], pts[k + 1]>>]

\* The loop over the ring's windows, from window k on.
RECURSIVE outline_loop(_, _, _)
outline_loop(wins, pairs, k) ==
    IF k > Len(wins) THEN <<>>
    ELSE (IF ~(\E j \in 1..Len(pairs) : approx_eq(wins[k], pairs[j]))
            THEN <<wins[k]>> ELSE <<>>)
         \o outline_loop(wins, pairs, k + 1)

\* get_unzoomed_outline(i, map)
get_unzoomed_outline(i, map) ==
    IF IsNone(i.polygon.ring) THEN [aborted |-> FALSE, value |-> <<>>]
    ELSE LET pairs == road_pairs(i, map)
         IN  IF \E k \in 1..Len(pairs) : IsNone(pairs[k])
               THEN [aborted |-> TRUE, value |-> <<>>]
               ELSE [aborted |-> FALSE,
                     value |-> outline_loop(windows2(Unwrap(i.polygon.ring)),
                                            [k \in 1..Len(pairs) |-> Unwrap(pairs[k])],
                                            1)]

-----------------------------------------------------------------------------
(***************************************************************************)
(* DrawIntersection::render.  i is the intersection with what the map gives *)
(* for it: the fields calculate_corners and calculate_border_arrows read,   *)
(* and polygon, private, intersection_type, zorder and orig_id (the         *)
(* original node id).  map is [experiment (the colour scheme's flag),       *)
(* driving_side, way (lane id -> original way id of the lane's road),       *)
(* stop_sign (the values of get_stop_sign(i.id).roads in key order, each    *)
(* [must_stop, edge_lane]), border_r (the first road of a border), r].      *)
(* The result is [aborted, batch, alpha]: batch the sequence of             *)
(* [color, poly] pushed, alpha the ChangeAlpha rewrite applied to all of it *)
(* (10 for none), aborted tells that a call panicked before render          *)
(* returned.                                                                *)
(***************************************************************************)
\* GeomBatch::extend(color, polygons)
extend(batch, color, polys) ==
    batch \o [k \in 1..Len(polys) |-> [color |-> color, poly |-> polys[k]]]

\* for turn in map.get_turns_in_intersection(i.id) { .. make_crosswalk .. }
RECURSIVE render_crosswalks(_, _, _, _)
render_crosswalks(acc, i, map, k) ==
    IF acc.aborted \/ k > Len(i.turns) THEN acc
    ELSE IF renders_crosswalk(i.turns[k])
      THEN LET made == make_crosswalk(acc.batch, i.turns[k],
                           [node |-> i.orig_id,
                            way |-> map.way[i.turns[k].id.src],
                            width |-> i.lanes[i.turns[k].id.src].width])
           IN  render_crosswalks([batch |-> made.batch, aborted |-> made.aborted],
                                 i, map, k + 1)
      ELSE render_crosswalks(acc, i, map, k + 1)

\* What one road with a stop sign adds: octagon, pole and the STOP text.
stop_sign_glyph(g) ==
    <<[color |-> "stop_sign", poly |-> g.octagon],
      [color |-> "stop_sign_pole", poly |-> g.pole],
      [color |-> "WHITE",
       poly |-> [kind |-> "text", center |-> g.octagon.center,
                 facing |-> RightOf(g.angle)]]>>

RECURSIVE render_stop_signs_UntilNoRoom(_, _, _, _)
render_stop_signs_UntilNoRoom(acc, roads, driving_side, k) ==
    IF acc.aborted \/ k > Len(roads) THEN acc
    ELSE IF roads[k].must_stop
      THEN LET g == stop_sign_geom(roads[k].edge_lane, driving_side)
           IN  IF g.aborted THEN [acc EXCEPT !.aborted = TRUE]
               ELSE IF IsNone(g.value) THEN acc
               ELSE render_stop_signs_UntilNoRoom(
                        [acc EXCEPT !.batch = @ \o stop_sign_glyph(Unwrap(g.value))],
                        roads, driving_side, k + 1)
      ELSE render_stop_signs_UntilNoRoom(acc, roads, driving_side, k + 1)

\* for ss in map.get_stop_sign(i.id).roads.values() { .. }, from the k-th on
RECURSIVE render_stop_signs(_, _, _, _)
render_stop_signs(acc, roads, driving_side, k) ==
    IF acc.aborted \/ k > Len(roads) THEN acc
    ELSE IF roads[k].must_stop
      THEN LET g == stop_sign_geom(roads[k].edge_lane, driving_side)
           IN  IF g.aborted THEN [acc EXCEPT !.aborted = TRUE]
               ELSE IF IsNone(g.value)
                 THEN render_stop_signs(acc, roads, driving_side, k + 1)
               ELSE render_stop_signs(
                        [acc EXCEPT !.batch = @ \o stop_sign_glyph(Unwrap(g.value))],
                        roads, driving_side, k + 1)
      ELSE render_stop_signs(acc, roads, driving_side, k + 1)

\* match i.intersection_type { .. }
render_by_type(acc, i, map) ==
    IF acc.aborted THEN acc
    ELSE IF i.intersection_type = "Border"
      THEN [acc EXCEPT !.batch = extend(@, "road_center_line",
                                        calculate_border_arrows(i, map.border_r))]
    ELSE IF i.intersection_type = "StopSign"
      THEN render_stop_signs(acc, map.stop_sign, map.driving_side, 1)
    ELSE IF i.intersection_type = "Construction"
      THEN [acc EXCEPT !.batch = Append(@,
                [color |-> "svg",
                 poly |-> [kind |-> "under_construction", on |-> i.polygon]])]
    ELSE acc

\* The surface polygon, the sidewalk corners and, in experiment mode, the curbs
surface_batch(i, map) ==
    LET surface == IF i.footway THEN "zoomed_road_surface_sidewalk"
                   ELSE "zoomed_intersection_surface"
        with_corners == extend(<<[color |-> surface, poly |-> i.polygon]>>,
                               "zoomed_road_surface_sidewalk", calculate_corners(i))
    IN  IF map.experiment
          THEN extend(with_corners, "curb",
                      calculate_corner_curbs(i, map.driving_side))
          ELSE with_corners

\* if i.is_private(map) { default_geom.push(private_road, i.polygon) }
tint_private(crossed, i) ==
    IF i.private /\ ~crossed.aborted
      THEN [crossed EXCEPT !.batch = Append(@,
               [color |-> "private_road", poly |-> i.polygon])]
      ELSE crossed

\* The batch render returns and the alpha it is drawn with below ground
render_result(typed, i) ==
    [aborted |-> typed.aborted,
     batch |-> typed.batch,
     alpha |-> IF i.zorder < 0 THEN 5 ELSE 10]

\* DrawIntersection::render(prerender, app)
DrawIntersection_render(i, map) ==
    render_result(
        render_by_type(
            tint_private(
                render_crosswalks([batch |-> surface_batch(i, map), aborted |-> FALSE],
                                  i, map, 1),
                i),
            i, map),
        i)

-----------------------------------------------------------------------------
(***************************************************************************)
(* CommonState (game/src/common/mod.rs).  An event's input is what ctx and  *)
(* the widgets report during the call: [key (the one key pressed, or        *)
(* "none"), click (the per-object action clicked, or "none"), closed and    *)
(* maybe_t (what InfoPanel::event returns, if it is called)].  The calls    *)
(* into InfoPanel and ContextualActions are outside this file; they are     *)
(* taken not to assign app.primary.layer.                                   *)
(***************************************************************************)
\* CommonState::new()
CommonState_new == [info_panel |-> None, cached_actions |-> <<>>]

\* A map just loaded: no layer, nothing selected.
PerMap_new == [layer |-> None, current_selection |-> None]

\* InfoPanel::new(ctx, app, tab, ctx_actions)
InfoPanel_new(tab) == [tab |-> tab]

\* ctx_actions.actions(app, id): the (key, action) pairs offered for an object
actions(id) == IF id = "a" THEN <<"K1", "K2">> ELSE <<"K2">>

\* CommonState::debug_actions(ctx, app), as [app, ret]
debug_actions(a, input) ==
    LET toggled == IF input.key = "ctrl_s" THEN [a EXCEPT !.dev = ~a.dev] ELSE a
    IN  IF input.key = "ctrl_j"
          THEN [app |-> toggled, ret |-> Some("Push(DebugWarp)")]
        ELSE IF ~IsNone(toggled.secondary) /\ input.key = "ctrl_tab"
          THEN [app |-> [toggled EXCEPT !.primary = Unwrap(toggled.secondary),
                                        !.secondary = Some(toggled.primary)],
                ret |-> None]
        ELSE [app |-> toggled, ret |-> None]

close_for_layer_Never(c, a) == c

\* if app.primary.layer.is_some() { self.info_panel = None; }
close_for_layer(c, a) ==
    IF ~IsNone(a.primary.layer) THEN [c EXCEPT !.info_panel = None] ELSE c

\* The hotkey loop over ctx_actions.actions(app, id) from the k-th pair on,
\* as [common, ret]
RECURSIVE hotkey_loop(_, _, _, _)
hotkey_loop(c, id, input, k) ==
    IF k > Len(actions(id)) THEN [common |-> c, ret |-> None]
    ELSE IF input.key = actions(id)[k]
      THEN [common |-> c, ret |-> Some("execute")]
      ELSE hotkey_loop([c EXCEPT !.cached_actions = Append(@, actions(id)[k])],
                       id, input, k + 1)

\* if self.info_panel.is_none() { self.cached_actions.clear(); .. }
rebuild_actions(c, a, input) ==
    IF IsNone(c.info_panel)
      THEN IF ~IsNone(a.primary.current_selection)
             THEN hotkey_loop([c EXCEPT !.cached_actions = <<>>],
                              Unwrap(a.primary.current_selection), input, 1)
             ELSE [common |-> [c EXCEPT !.cached_actions = <<>>], ret |-> None]
      ELSE [common |-> c, ret |-> None]

\* if let Some(ref mut info) = self.info_panel { info.event(..) .. },
\* as [common, ret, returned]
panel_event(c, input) ==
    IF ~IsNone(c.info_panel)
      THEN [common |-> IF input.closed THEN [c EXCEPT !.info_panel = None] ELSE c,
            ret |-> input.maybe_t,
            returned |-> ~IsNone(input.maybe_t)]
      ELSE [common |-> c, ret |-> None, returned |-> FALSE]

\* CommonState::event(ctx, app, ctx_actions), as [common, app, ret, early]:
\* early tells that it returned from debug_actions.
event(c, a, input) ==
    LET debug == debug_actions(a, input)
        closed == close_for_layer(c, debug.app)
        sel == debug.app.primary.current_selection
        paneled == panel_event(closed, input)
        rebuilt == rebuild_actions(paneled.common, debug.app, input)
    IN  IF ~IsNone(debug.ret)
          THEN [common |-> c, app |-> debug.app, ret |-> debug.ret, early |-> TRUE]
        ELSE IF ~IsNone(sel) /\ input.click = "show info"
          THEN [common |-> [closed EXCEPT !.info_panel =
                                Some(InfoPanel_new(Unwrap(sel)))],
                app |-> [debug.app EXCEPT !.primary.layer = None],
                ret |-> None, early |-> FALSE]
        ELSE IF paneled.returned
          THEN [common |-> paneled.common, app |-> debug.app,
                ret |-> paneled.ret, early |-> FALSE]
        ELSE [common |-> rebuilt.common, app |-> debug.app,
              ret |-> rebuilt.ret, early |-> FALSE]

\* CommonState::launch_info_panel(ctx, app, tab, ctx_actions), as [common, app]
launch_info_panel(c, a, tab) ==
    [common |-> [c EXCEPT !.info_panel = Some(InfoPanel_new(tab))],
     app |-> [a EXCEPT !.primary.layer = None]]

-----------------------------------------------------------------------------
(***************************************************************************)
(* The render cache.                                                        *)
(***************************************************************************)

\* What render() returns for an object: a batch computed from the map (a
\* read-only borrow; its generation changes only by an external edit).
render(o, gen) == [obj |-> o, gen |-> gen]

\* traffic_signal::draw_signal_stage for the stage current at time t.
draw_signal_stage(i, t) == [obj |-> i, stage_at |-> t]

NeedsRender_Always(slot) == TRUE

\* draw.is_none()
NeedsRender(slot) == IsNone(slot)

Recalc_OnlyWhenEmpty(slot, now) == IsNone(slot)

\* maybe_redraw.as_ref().map(|(t, _)| *t != app.sim_time()).unwrap_or(true)
Recalc(slot, now) == IF IsNone(slot) THEN TRUE ELSE Unwrap(slot).time # now

ClearSlot_Noop(slots, o) == slots

ClearSlot_All(slots, o) == [x \in DOMAIN slots |-> None]

\* *self.draw_default.borrow_mut() = None
ClearSlot(slots, o) == [slots EXCEPT ![o] = None]

\* *draw = Some(g.upload(self.render(g, app)))
FillSlot(slots, o, d) == [slots EXCEPT ![o] = Some(d)]

\* DrawIntersection::new / DrawRoad::new for every object, nothing drawn yet
CacheFresh ==
    /\ draw_default = [o \in Objects |-> None]
    /\ draw_traffic_signal = [i \in Intersections |-> None]
    /\ sim_time = 0
    /\ map_gen = 0
    /\ render_calls = [o \in Objects |-> 0]
    /\ draw_calls = [o \in Objects |-> 0]
    /\ signal_calls = [i \in Intersections |-> 0]
    /\ signal_draws = [i \in Intersections |-> 0]
    /\ last_op = [op |-> "new", obj |-> "-", redrawn |-> <<>>, held |-> None]
    /\ common = CommonState_new
    /\ app = [primary |-> PerMap_new, secondary |-> None, dev |-> FALSE]

CacheInit ==
    /\ CacheFresh
    /\ traffic_signals \in SUBSET Intersections
    /\ inp = None
    /\ out = None
    /\ pc = "idle"

\* The default-slot half of draw, shared by DrawIntersection and DrawRoad.
DrawDefault(o) ==
    /\ draw_calls[o] < MaxDraws
    /\ draw_calls' = [draw_calls EXCEPT ![o] = @ + 1]
    /\ IF NeedsRender(draw_default[o])
         THEN /\ draw_default' = FillSlot(draw_default, o, render(o, map_gen))
              /\ render_calls' = [render_calls EXCEPT ![o] = @ + 1]
         ELSE UNCHANGED <<draw_default, render_calls>>

\* DrawIntersection::draw with opts.suppress_traffic_signal_details = suppress
DrawIntersectionDraw(i, suppress) ==
    /\ DrawDefault(i)
    /\ IF i \in traffic_signals /\ i \notin suppress
         THEN /\ signal_draws[i] < MaxDraws
              /\ signal_draws' = [signal_draws EXCEPT ![i] = @ + 1]
              /\ IF Recalc(draw_traffic_signal[i], sim_time)
                   THEN /\ draw_traffic_signal' =
                             [draw_traffic_signal EXCEPT ![i] =
                                 Some([time |-> sim_time,
                                       batch |-> draw_signal_stage(i, sim_time)])]
                        /\ signal_calls' = [signal_calls EXCEPT ![i] = @ + 1]
                   ELSE UNCHANGED <<draw_traffic_signal, signal_calls>>
              /\ last_op' = [op |-> "draw", obj |-> i,
                              redrawn |-> <<Unwrap(draw_default'[i]),
                                            Unwrap(draw_traffic_signal'[i]).batch>>,
                              held |-> None]
         ELSE /\ UNCHANGED <<draw_traffic_signal, signal_calls, signal_draws>>
              /\ last_op' = [op |-> "draw", obj |-> i,
                              redrawn |-> <<Unwrap(draw_default'[i])>>,
                              held |-> None]
    /\ UNCHANGED <<sim_time, map_gen, traffic_signals>>
    /\ UNCHANGED pureVars

\* DrawRoad::draw
DrawRoadDraw(r) ==
    /\ DrawDefault(r)
    /\ last_op' = [op |-> "draw", obj |-> r,
                    redrawn |-> <<Unwrap(draw_default'[r])>>,
                              held |-> None]
    /\ UNCHANGED <<draw_traffic_signal, signal_calls, signal_draws,
                   sim_time, map_gen, traffic_signals>>
    /\ UNCHANGED pureVars

ClearRendering_BothSlots(o) ==
    /\ draw_default' = ClearSlot(draw_default, o)
    /\ draw_traffic_signal' =
           [i \in Intersections |-> IF i = o THEN None ELSE draw_traffic_signal[i]]
    /\ render_calls' = [render_calls EXCEPT ![o] = 0]
    /\ draw_calls' = [draw_calls EXCEPT ![o] = 0]
    /\ last_op' = [op |-> "clear", obj |-> o, redrawn |-> <<>>,
                    held |-> draw_default[o]]
    /\ UNCHANGED <<signal_calls, signal_draws, sim_time, map_gen, traffic_signals>>
    /\ UNCHANGED pureVars

\* DrawIntersection::clear_rendering and DrawRoad::clear_rendering
ClearRendering(o) ==
    /\ draw_default' = ClearSlot(draw_default, o)
    /\ render_calls' = [render_calls EXCEPT ![o] = 0]
    /\ draw_calls' = [draw_calls EXCEPT ![o] = 0]
    /\ last_op' = [op |-> "clear", obj |-> o, redrawn |-> <<>>,
                    held |-> draw_default[o]]
    /\ UNCHANGED <<draw_traffic_signal, signal_calls, signal_draws,
                   sim_time, map_gen, traffic_signals>>
    /\ UNCHANGED pureVars

\* The simulation's clock advances (outside the renderer).
AdvanceTime ==
    /\ sim_time < MaxTime
    /\ sim_time' = sim_time + 1
    /\ signal_calls' = [i \in Intersections |-> 0]
    /\ signal_draws' = [i \in Intersections |-> 0]
    /\ last_op' = [op |-> "tick", obj |-> "-", redrawn |-> <<>>, held |-> None]
    /\ UNCHANGED <<draw_default, draw_traffic_signal, map_gen, traffic_signals,
                   render_calls, draw_calls>>
    /\ UNCHANGED pureVars

\* The map is edited (outside the renderer; the caller is expected to call
\* clear_rendering on the edited objects afterwards, and may not have yet).
EditMap ==
    /\ map_gen < MaxEdits
    /\ map_gen' = map_gen + 1
    /\ last_op' = [op |-> "edit", obj |-> "-", redrawn |-> <<>>, held |-> None]
    /\ UNCHANGED <<draw_default, draw_traffic_signal, sim_time, traffic_signals,
                   render_calls, draw_calls, signal_calls,
                   signal_draws>>
    /\ UNCHANGED pureVars

CacheNext ==
    \/ \E i \in Intersections, suppress \in SUBSET Intersections :
           DrawIntersectionDraw(i, suppress)
    \/ \E r \in Roads : DrawRoadDraw(r)
    \/ \E o \in Objects : ClearRendering(o)
    \/ AdvanceTime
    \/ EditMap

SpecCache == CacheInit /\ [][CacheNext]_vars

-----------------------------------------------------------------------------
(***************************************************************************)
(* The intersections calculate_corners is run on.  A sidewalk corner is a   *)
(* pair of lanes: lane 2k-1 ends at the intersection heading east at        *)
(* Origin(k), lane 2k starts there after a right-angle bend to the right or *)
(* the left; the map joins them by SharedSidewalkCorner turns in both       *)
(* directions, the turn geometry running from the one lane's end over the   *)
(* bend to the other lane's start.  A dead-end has one road, whose two      *)
(* sidewalks form its one corner; a footway intersection joins at least two *)
(* footway roads (a footway road has a single lane).                        *)
(***************************************************************************)
Widths == {5000, 15000}

LegPairs == {<<30000, 30000>>, <<7500, 2500>>}

PairSpecs == [w1 : Widths, w2 : Widths, bend : {"L", "R"}, legs : LegPairs]

\* The sequences of at most max_pairs corners.
PairSeqs(max_pairs) == UNION {[1..n -> PairSpecs] : n \in 1..max_pairs}

Origin(k) == <<k * 1000000, 0>>

East == <<1, 0>>

BendHeading(bend) == IF bend = "R" THEN RightOf(East) ELSE Opposite(RightOf(East))

\* The three points of the k-th corner's turn geometry.
CornerGeom(ps, k) ==
    <<Origin(k),
      project_away(Origin(k), ps[k].legs[1], East),
      project_away(project_away(Origin(k), ps[k].legs[1], East),
                   ps[k].legs[2], BendHeading(ps[k].bend))>>

IncomingLane(ps, k) ==
    [width |-> ps[k].w1, src_i |-> "i2", dst_i |-> "i1",
     first_line |-> Line_new(project_away(Origin(k), 200000, Opposite(East)),
                             project_away(Origin(k), 100000, Opposite(East))),
     last_line |-> Line_new(project_away(Origin(k), 100000, Opposite(East)),
                            Origin(k))]

OutgoingLane(ps, k) ==
    [width |-> ps[k].w2, src_i |-> "i1", dst_i |-> "i2",
     first_line |-> Line_new(CornerGeom(ps, k)[3],
                             project_away(CornerGeom(ps, k)[3], 100000,
                                          BendHeading(ps[k].bend))),
     last_line |-> Line_new(project_away(CornerGeom(ps, k)[3], 100000,
                                         BendHeading(ps[k].bend)),
                            project_away(CornerGeom(ps, k)[3], 200000,
                                         BendHeading(ps[k].bend)))]

CornerTurn(ps, j) ==
    IF j % 2 = 1
      THEN [id |-> [src |-> j, dst |-> j + 1],
            turn_type |-> "SharedSidewalkCorner",
            geom |-> CornerGeom(ps, (j + 1) \div 2),
            other_crosswalk_ids |-> {}]
      ELSE [id |-> [src |-> j, dst |-> j - 1],
            turn_type |-> "SharedSidewalkCorner",
            geom |-> reversed(CornerGeom(ps, j \div 2)),
            other_crosswalk_ids |-> {}]

\* A crosswalk from the first lane to the last one.
CrossingTurn(ps) ==
    [id |-> [src |-> 1, dst |-> 2 * Len(ps)],
     turn_type |-> "Crosswalk",
     geom |-> <<Origin(1), CornerGeom(ps, Len(ps))[3]>>,
     other_crosswalk_ids |-> {}]

CornerIntersection(ps, footway, n_roads, crossing) ==
    [id |-> "i1",
     footway |-> footway,
     roads |-> 1..n_roads,
     lanes |-> [l \in 1..(2 * Len(ps)) |->
                   IF l % 2 = 1 THEN IncomingLane(ps, (l + 1) \div 2)
                   ELSE OutgoingLane(ps, l \div 2)],
     turns |-> [j \in 1..(2 * Len(ps)) |-> CornerTurn(ps, j)]
               \o (IF crossing THEN <<CrossingTurn(ps)>> ELSE <<>>)]

CornerInputs(max_pairs, max_roads) ==
    {CornerIntersection(ps, footway, n_roads, crossing) :
        <<ps, footway, n_roads, crossing>> \in
            {x \in PairSeqs(max_pairs) \X BOOLEAN \X (1..max_roads) \X BOOLEAN :
                /\ x[3] = 1 => Len(x[1]) = 1
                /\ x[2] => x[3] >= 2}}

CornersInit ==
    /\ CacheFresh
    /\ traffic_signals = {}
    /\ inp \in CornerInputs(MaxPairs, MaxRoads)
    /\ out = None
    /\ pc = "start"

\* One call of calculate_corners(i, map)
CalcCorners ==
    /\ pc = "start"
    /\ out' = [corners |-> calculate_corners(inp)]
    /\ pc' = "done"
    /\ UNCHANGED inp
    /\ UNCHANGED cacheVars

CornersNext == CalcCorners

SpecCorners == CornersInit /\ [][CornersNext]_vars

-----------------------------------------------------------------------------
(***************************************************************************)
(* The intersections DrawIntersection::render is run on: two sidewalk       *)
(* corners (lanes 1..4) and crosswalk turns between lanes of different      *)
(* corners, with symmetric sibling lists.                                   *)
(***************************************************************************)
RenderCorners ==
    <<[w1 |-> 15000, w2 |-> 15000, bend |-> "R", legs |-> <<30000, 30000>>],
      [w1 |-> 15000, w2 |-> 5000, bend |-> "L", legs |-> <<30000, 30000>>]>>

CrossingIds ==
    {[src |-> a, dst |-> b] : <<a, b>> \in
        {x \in (1..4) \X (1..4) : (x[1] + 1) \div 2 # (x[2] + 1) \div 2}}

\* The sibling lists a set of unordered pairs of crosswalk ids stands for.
SiblingsOf(id, links) == {other \in UNION links : {id, other} \in links} \ {id}

CrossingTurnOf(id, links) ==
    [id |-> id,
     turn_type |-> "Crosswalk",
     geom |-> <<CornerGeom(RenderCorners, (id.src + 1) \div 2)[3],
                Origin((id.dst + 1) \div 2)>>,
     other_crosswalk_ids |-> SiblingsOf(id, links)]

\* A set of turn ids as the sequence sorted by id.
RECURSIVE SortedIds(_)
SortedIds(ids) ==
    IF ids = {} THEN <<>>
    ELSE LET m == CHOOSE x \in ids : \A y \in ids \ {x} : turn_id_lt(x, y)
         IN  <<m>> \o SortedIds(ids \ {m})

RenderIntersection(ids, links) ==
    [CornerIntersection(RenderCorners, FALSE, 2, FALSE) EXCEPT
        !.turns = @ \o [k \in 1..Cardinality(ids) |->
                           CrossingTurnOf(SortedIds(ids)[k], links)]]

\* The unordered pairs of a set of ids.
PairsOf(ids) == {link \in SUBSET ids : Cardinality(link) = 2}

RenderInputs(max_crossings) ==
    UNION {{RenderIntersection(ids, links) : links \in SUBSET PairsOf(ids)} :
              ids \in {x \in SUBSET CrossingIds : Cardinality(x) <= max_crossings}}

RenderInit ==
    /\ CacheFresh
    /\ traffic_signals = {}
    /\ inp \in RenderInputs(MaxCrossings)
    /\ out = None
    /\ pc = "start"

\* One call of DrawIntersection::render: the sidewalk corners pushed and
\* the turns make_crosswalk is called for.
Render ==
    /\ pc = "start"
    /\ out' = [corners |-> calculate_corners(inp),
               crosswalks |-> crosswalk_loop(inp, 1)]
    /\ pc' = "done"
    /\ UNCHANGED inp
    /\ UNCHANGED cacheVars

RenderNext == Render

SpecRender == RenderInit /\ [][RenderNext]_vars

-----------------------------------------------------------------------------
(***************************************************************************)
(* The border intersections calculate_border_arrows is run on: one straight *)
(* road of up to MaxBorderLanes lanes, touching the border with its first   *)
(* or its last end; the lanes leaving the border are the border's outgoing  *)
(* lanes, those arriving its incoming lanes.                                *)
(***************************************************************************)
LaneWidths == {15000, 25000}

BorderLaneSeqs(max_lanes) ==
    UNION {[1..n -> [dir : {"Fwd", "Back"}, width : LaneWidths]] :
              n \in 0..max_lanes}

BorderRoad(ls, heading) ==
    [src_i |-> "i1", dst_i |-> "i2",
     lanes_ltr |-> [k \in 1..Len(ls) |-> [id |-> k, dir |-> ls[k].dir]],
     width |-> [k \in 1..Len(ls) |-> ls[k].width],
     dir_change_pl |-> <<<<0, 0>>,
                         project_away(<<0, 0>>, 500000, heading),
                         project_away(<<0, 0>>, 1000000, heading)>>]

\* Lanes run from the road's src_i to its dst_i when Fwd, the other way when Back.
LanesInto(r, end) ==
    {r.lanes_ltr[k].id : k \in {j \in 1..Len(r.lanes_ltr) :
        r.lanes_ltr[j].dir = (IF end = r.dst_i THEN "Fwd" ELSE "Back")}}

BorderOf(r, end) ==
    [id |-> end,
     incoming_lanes |-> LanesInto(r, end),
     outgoing_lanes |-> {r.lanes_ltr[k].id : k \in 1..Len(r.lanes_ltr)}
                            \ LanesInto(r, end)]

ArrowInputs(max_lanes) ==
    {[i |-> BorderOf(BorderRoad(ls, heading), end), r |-> BorderRoad(ls, heading)] :
        <<ls, heading, end>> \in
            BorderLaneSeqs(max_lanes) \X {East, RightOf(East)} \X {"i1", "i2"}}

ArrowsInit ==
    /\ CacheFresh
    /\ traffic_signals = {}
    /\ inp \in ArrowInputs(MaxBorderLanes)
    /\ out = None
    /\ pc = "start"

\* One call of calculate_border_arrows(i, r, map)
CalcBorderArrows ==
    /\ pc = "start"
    /\ out' = [arrows |-> calculate_border_arrows(inp.i, inp.r)]
    /\ pc' = "done"
    /\ UNCHANGED inp
    /\ UNCHANGED cacheVars

ArrowsNext == CalcBorderArrows

SpecArrows == ArrowsInit /\ [][ArrowsNext]_vars

-----------------------------------------------------------------------------
(***************************************************************************)
(* The sidewalk part of render with cs.experiment set: calculate_corners    *)
(* and calculate_corner_curbs on one corner intersection, under either      *)
(* driving side.                                                            *)
(***************************************************************************)
CurbInputs(max_pairs, max_roads) ==
    {[i |-> i, driving_side |-> side] :
        <<i, side>> \in CornerInputs(max_pairs, max_roads) \X {"Right", "Left"}}

CurbsInit ==
    /\ CacheFresh
    /\ traffic_signals = {}
    /\ inp \in CurbInputs(MaxPairs, MaxRoads)
    /\ out = None
    /\ pc = "start"

\* default_geom.extend(.., calculate_corners(i, map));
\* default_geom.extend(.., calculate_corner_curbs(i, map))
CalcCurbs ==
    /\ pc = "start"
    /\ out' = [corners |-> calculate_corners(inp.i),
               curbs |-> calculate_corner_curbs(inp.i, inp.driving_side)]
    /\ pc' = "done"
    /\ UNCHANGED inp
    /\ UNCHANGED cacheVars

CurbsNext == CalcCurbs

SpecCurbs == CurbsInit /\ [][CurbsNext]_vars

-----------------------------------------------------------------------------
(***************************************************************************)
(* The approaches stop_sign_geom is run on: an edge lane whose centre line  *)
(* is straight or bends once to the right, of a length from 0.05 m to 5 m   *)
(* (closely spaced around the 0.1 m trim), under either driving side.       *)
(***************************************************************************)
DrivingSides == {"Right", "Left"}

StraightLengths == {500, 999, 1000, 1001, 1002, 1003, 2000, 50000}

\* Second legs of the bent centre lines, after a first leg of 3 m.
SecondLegs == {500, 1000, 1001, 20000}

StopLaneLegs == {<<l>> : l \in StraightLengths} \cup {<<30000, l>> : l \in SecondLegs}

StopLanePts(legs, heading) ==
    IF Len(legs) = 1
      THEN <<<<0, 0>>, project_away(<<0, 0>>, legs[1], heading)>>
      ELSE <<<<0, 0>>,
             project_away(<<0, 0>>, legs[1], heading),
             project_away(project_away(<<0, 0>>, legs[1], heading),
                          legs[2], RightOf(heading))>>

StopSignInputs ==
    {[edge_lane |-> [lane_center_pts |-> StopLanePts(legs, heading), width |-> w],
      driving_side |-> side] :
        <<legs, heading, w, side>> \in
            StopLaneLegs \X {East, RightOf(East)} \X LaneWidths \X DrivingSides}

StopSignInit ==
    /\ CacheFresh
    /\ traffic_signals = {}
    /\ inp \in StopSignInputs
    /\ out = None
    /\ pc = "start"

\* One call of DrawIntersection::stop_sign_geom(ss, map)
CalcStopSign ==
    /\ pc = "start"
    /\ out' = stop_sign_geom(inp.edge_lane, inp.driving_side)
    /\ pc' = "done"
    /\ UNCHANGED inp
    /\ UNCHANGED cacheVars

StopSignNext == CalcStopSign

SpecStopSign == StopSignInit /\ [][StopSignNext]_vars

-----------------------------------------------------------------------------
(***************************************************************************)
(* The four sideways-offset calculations of render on one small map: a      *)
(* corner intersection, a border with its road and a stop-sign approach,    *)
(* under the map's driving side.                                            *)
(***************************************************************************)
SidedCorners ==
    {CornerIntersection(<<[w1 |-> 15000, w2 |-> w2, bend |-> bend,
                           legs |-> <<30000, 30000>>]>>, FALSE, 2, FALSE) :
        <<w2, bend>> \in Widths \X {"L", "R"}}

SidedBorders ==
    {b \in ArrowInputs(1) : Len(b.r.lanes_ltr) = 1 /\ b.r.width[1] = 15000}

SidedLanes ==
    {[lane_center_pts |-> StopLanePts(legs, East), width |-> w] :
        <<legs, w>> \in {<<50000>>, <<30000, 20000>>} \X LaneWidths}

SidedMaps ==
    [driving_side : DrivingSides, i : SidedCorners, border : SidedBorders,
     edge_lane : SidedLanes]

\* What render computes from the map for the three intersections.
sided_geometry(map) ==
    [corners |-> calculate_corners(map.i),
     curbs |-> calculate_corner_curbs(map.i, map.driving_side),
     arrows |-> calculate_border_arrows(map.border.i, map.border.r),
     stop |-> stop_sign_geom(map.edge_lane, map.driving_side)]

SidesInit ==
    /\ CacheFresh
    /\ traffic_signals = {}
    /\ inp \in SidedMaps
    /\ out = None
    /\ pc = "start"

CalcSided ==
    /\ pc = "start"
    /\ out' = sided_geometry(inp)
    /\ pc' = "done"
    /\ UNCHANGED inp
    /\ UNCHANGED cacheVars

SidesNext == CalcSided

SpecSides == SidesInit /\ [][SidesNext]_vars

-----------------------------------------------------------------------------
(***************************************************************************)
(* The crossings make_crosswalk is run on.  The turn's polyline runs        *)
(* straight: a lead-in of 1 m, the middle segment (the crossing line) and,  *)
(* with four points, a lead-out of 1 m; a squished one has two points.  The *)
(* middle segment is 0 m long (second and third point coincide) or from     *)
(* 0.5 m to 10 m, closely spaced around twice the boundary and around the   *)
(* multiples of the tile spacing.  The listed rainbow crossings are nine    *)
(* street crossings of Capitol Hill, Seattle: there the crossing line is    *)
(* 7 m or 10 m long.                                                        *)
(***************************************************************************)
MiddleLengths ==
    {0, 5000, 10000, 10001, 12999, 13000, 13001, 16000, 16003, 40000, 70000}

StreetLengths == {70000, 100000}

LeadLength == 10000

CrossingPts(n, middle, heading) ==
    LET p1 == <<0, 0>>
        p2 == project_away(p1, LeadLength, heading)
        p3 == project_away(p2, middle, heading)
        p4 == project_away(p3, LeadLength, heading)
    IN  IF n = 2 THEN <<p1, p2>>
        ELSE IF n = 3 THEN <<p1, p2, p3>>
        ELSE <<p1, p2, p3, p4>>

CrossingGeoms(middles) ==
    {CrossingPts(2, 0, heading) : heading \in {East, RightOf(East)}}
    \cup {CrossingPts(n, middle, heading) :
            <<n, middle, heading>> \in {3, 4} \X middles \X {East, RightOf(East)}}

\* (node, way) pairs off the list: a listed node with another listed node's
\* way, a listed node with an unlisted way, a listed way with an unlisted
\* node, a node next to a listed one, and a pair sharing nothing.
NearMisses ==
    { <<53073255, 65588105>>, <<53073255, 1>>, <<1, 428246441>>,
      <<53073256, 428246441>>, <<2, 3>> }

\* What the batch holds when make_crosswalk is called.
PriorBatches ==
    {<<>>, <<[color |-> "sidewalk", poly |-> Polygon_buggy_new(<<>>)]>>}

CrosswalkInputs ==
    {[batch |-> b, turn |-> [geom |-> g],
      map |-> [node |-> id[1], way |-> id[2], width |-> 15000]] :
        <<b, g, id>> \in PriorBatches \X CrossingGeoms(MiddleLengths) \X NearMisses}
    \cup
    {[batch |-> b, turn |-> [geom |-> g],
      map |-> [node |-> id[1], way |-> id[2], width |-> w]] :
        <<b, g, id, w>> \in PriorBatches
                            \X (CrossingGeoms(StreetLengths) \ CrossingGeoms({}))
                            \X RainbowList \X LaneWidths}

CrosswalkInit ==
    /\ CacheFresh
    /\ traffic_signals = {}
    /\ inp \in CrosswalkInputs
    /\ out = None
    /\ pc = "start"

\* One call of make_crosswalk(batch, turn, map, cs)
CalcCrosswalk ==
    /\ pc = "start"
    /\ out' = make_crosswalk(inp.batch, inp.turn, inp.map)
    /\ pc' = "done"
    /\ UNCHANGED inp
    /\ UNCHANGED cacheVars

CrosswalkNext == CalcCrosswalk

SpecCrosswalk == CrosswalkInit /\ [][CrosswalkNext]_vars

-----------------------------------------------------------------------------
(***************************************************************************)
(* The intersections get_unzoomed_outline is run on: a 4-way crossing       *)
(* around <<0, 0>>.  Its ring has, for each of the four arms, the edge      *)
(* across the arm at ArmReach from the centre, ArmHalf to either side, and  *)
(* the edges joining neighbouring arms (none when ArmHalf = ArmReach: the   *)
(* ring is then a square of the four arm edges), walked clockwise or        *)
(* counter-clockwise.  An arm carries no road, or a straight road ending or *)
(* starting there whose edge points are exactly on the ring, 0.05 m wider   *)
(* (within the tolerance), off by 0.08 m both ways (0.113 m, beyond it) or  *)
(* 0.2 m wider, or a road whose centre line bends 0.3 m before the          *)
(* intersection and cannot be shifted by its half width.                    *)
(***************************************************************************)
ArmReach == 100000

ArmHalves == {40000, 100000}

Arms == <<<<1, 0>>, <<0, 1>>, <<-1, 0>>, <<0, -1>>>>

Fits == {"none", "exact_dst", "exact_src", "near", "skew", "wide", "bent"}

\* Drop points equal to their predecessor.
RECURSIVE Dedup(_)
Dedup(pts) ==
    IF Len(pts) <= 1 THEN pts
    ELSE IF pts[1] = pts[2] THEN Dedup(Tail(pts))
    ELSE <<pts[1]>> \o Dedup(Tail(pts))

ArmLeft(k, half) ==
    project_away(project_away(<<0, 0>>, ArmReach, Arms[k]),
                 half, Opposite(RightOf(Arms[k])))

ArmRight(k, half) ==
    project_away(project_away(<<0, 0>>, ArmReach, Arms[k]), half, RightOf(Arms[k]))

\* The ring's points, closed; clockwise on screen, or reversed.
OutlineRing(half, clockwise) ==
    LET open == Dedup(<<ArmLeft(1, half), ArmRight(1, half),
                        ArmLeft(2, half), ArmRight(2, half),
                        ArmLeft(3, half), ArmRight(3, half),
                        ArmLeft(4, half), ArmRight(4, half)>>)
        closed == IF open[Len(open)] = open[1] THEN open ELSE Append(open, open[1])
    IN  IF clockwise THEN closed ELSE reversed(closed)

\* The road on arm k of the given fit; "i1" is the intersection.
ArmRoad(k, half, fit) ==
    LET at == IF fit = "skew"
                THEN PtAdd(project_away(<<0, 0>>, ArmReach, Arms[k]), <<800, 800>>)
                ELSE project_away(<<0, 0>>, ArmReach, Arms[k])
        far == project_away(at, 500000, Arms[k])
        hw == IF fit = "near" THEN half + 500
              ELSE IF fit = "wide" THEN half + 2000
              ELSE half
        turn == project_away(at, 3000, Arms[k])
    IN  IF fit = "exact_src"
          THEN [src_i |-> "i1", center_pts |-> <<at, far>>, half_width |-> hw]
        ELSE IF fit = "bent"
          THEN [src_i |-> "i2",
                center_pts |-> <<project_away(turn, 500000, RightOf(Arms[k])),
                                 turn, at>>,
                half_width |-> hw]
          ELSE [src_i |-> "i2", center_pts |-> <<far, at>>, half_width |-> hw]

OutlineInput(half, clockwise, fits, has_ring) ==
    [i |-> [id |-> "i1",
            polygon |-> [ring |-> IF has_ring THEN Some(OutlineRing(half, clockwise))
                                  ELSE None],
            roads |-> {k \in 1..4 : fits[k] # "none"}],
     map |-> [r |-> [k \in 1..4 |-> ArmRoad(k, half, fits[k])]]]

OutlineInputs ==
    {OutlineInput(half, clockwise, fits, TRUE) :
        <<half, clockwise, fits>> \in ArmHalves \X BOOLEAN \X [1..4 -> Fits]}
    \cup {OutlineInput(half, TRUE, fits, FALSE) :
            <<half, fits>> \in ArmHalves \X [1..4 -> {"none", "exact_dst"}]}

OutlineInit ==
    /\ CacheFresh
    /\ traffic_signals = {}
    /\ inp \in OutlineInputs
    /\ out = None
    /\ pc = "start"

\* One call of DrawIntersection::get_unzoomed_outline(i, map)
CalcOutline ==
    /\ pc = "start"
    /\ out' = get_unzoomed_outline(inp.i, inp.map)
    /\ pc' = "done"
    /\ UNCHANGED inp
    /\ UNCHANGED cacheVars

OutlineNext == CalcOutline

SpecOutline == OutlineInit /\ [][OutlineNext]_vars

-----------------------------------------------------------------------------
(***************************************************************************)
(* The five polygon calculators on inputs whose governing width or length   *)
(* is zero, EPSILON_DIST or ordinary: a one-corner intersection (dead-end   *)
(* or not), a border with a one-lane road, a stop-sign approach and a       *)
(* listed rainbow crossing.                                                 *)
(***************************************************************************)
DegenerateWidths == {0, EPSILON_DIST, 15000}

DegenerateCorners ==
    {CornerIntersection(<<[w1 |-> w1, w2 |-> w2, bend |-> "R",
                           legs |-> <<30000, 30000>>]>>, FALSE, n_roads, FALSE) :
        <<w1, w2, n_roads>> \in DegenerateWidths \X DegenerateWidths \X {1, 2}}

DegenerateBorders ==
    {[i |-> BorderOf(BorderRoad(<<[dir |-> dir, width |-> w]>>, East), "i1"),
      r |-> BorderRoad(<<[dir |-> dir, width |-> w]>>, East)] :
        <<dir, w>> \in {"Fwd", "Back"} \X DegenerateWidths}

DegenerateLanes ==
    {[lane_center_pts |-> StopLanePts(<<len>>, East), width |-> w] :
        <<len, w>> \in {1000, 1001, 1002, 50000} \X DegenerateWidths}

DegenerateCrossings ==
    {[turn |-> [geom |-> CrossingPts(3, 70000, East)],
      map |-> [node |-> 53073255, way |-> 428246441, width |-> w]] :
        w \in DegenerateWidths}

DegenerateMaps ==
    [i : DegenerateCorners, border : DegenerateBorders,
     edge_lane : DegenerateLanes, crossing : DegenerateCrossings]

\* What the five calculators return on the map's pieces (driving on the right).
degenerate_geometry(map) ==
    [corners |-> calculate_corners(map.i),
     curbs |-> calculate_corner_curbs(map.i, "Right"),
     arrows |-> calculate_border_arrows(map.border.i, map.border.r),
     stop |-> stop_sign_geom(map.edge_lane, "Right"),
     crosswalk |-> make_crosswalk(<<>>, map.crossing.turn, map.crossing.map)]

DegenerateInit ==
    /\ CacheFresh
    /\ traffic_signals = {}
    /\ inp \in DegenerateMaps
    /\ out = None
    /\ pc = "start"

CalcDegenerate ==
    /\ pc = "start"
    /\ out' = degenerate_geometry(inp)
    /\ pc' = "done"
    /\ UNCHANGED inp
    /\ UNCHANGED cacheVars

DegenerateNext == CalcDegenerate

SpecDegenerate == DegenerateInit /\ [][DegenerateNext]_vars

-----------------------------------------------------------------------------
(***************************************************************************)
(* The intersections DrawIntersection::render and get_unzoomed_outline are  *)
(* run on together: the two-corner intersection of the crosswalk loop (a    *)
(* border has one road and one corner), with the 4-arm boundary ring; with  *)
(* no crosswalk or one whose crossing line is 1.6 m or 7 m long, at a       *)
(* listed rainbow node or not; under stop-sign control with up to           *)
(* MaxStopRoads roads (each must stop or not, its edge lane 0.1001 m,       *)
(* 0.1002 m or 5 m long), or a border, a traffic signal or a construction   *)
(* site; road 1 straight or with a centre line that cannot be shifted.      *)
(***************************************************************************)
StopRoads ==
    {[must_stop |-> m,
      edge_lane |-> [lane_center_pts |-> StopLanePts(<<len>>, East),
                     width |-> 15000]] :
        <<m, len>> \in BOOLEAN \X {1001, 50000}}

StopSeqs(max_stop_roads) == UNION {[1..n -> StopRoads] : n \in 0..max_stop_roads}

DrawBorderRoad ==
    BorderRoad(<<[dir |-> "Fwd", width |-> 15000], [dir |-> "Back", width |-> 15000]>>,
               East)

DrawCrossing(middle) ==
    [id |-> [src |-> 1, dst |-> 4],
     turn_type |-> "Crosswalk",
     geom |-> CrossingPts(3, middle, East),
     other_crosswalk_ids |-> {}]

DrawInput(type, middle, node, stops, flags, fit) ==
    LET base == IF type = "Border"
                  THEN CornerIntersection(<<RenderCorners[1]>>, FALSE, 1, FALSE)
                  ELSE CornerIntersection(RenderCorners, FALSE, 2, FALSE)
        border == BorderOf(DrawBorderRoad, "i1")
    IN  [i |-> [id |-> "i1",
                footway |-> base.footway,
                roads |-> base.roads,
                lanes |-> base.lanes,
                turns |-> base.turns
                          \o (IF middle > 0 THEN <<DrawCrossing(middle)>> ELSE <<>>),
                polygon |-> [ring |-> Some(OutlineRing(40000, TRUE))],
                private |-> flags[2],
                intersection_type |-> type,
                zorder |-> IF flags[3] THEN -1 ELSE 0,
                orig_id |-> node,
                incoming_lanes |-> border.incoming_lanes,
                outgoing_lanes |-> border.outgoing_lanes],
         map |-> [experiment |-> flags[1],
                  driving_side |-> "Right",
                  way |-> [l \in 1..4 |-> 428246441],
                  stop_sign |-> stops,
                  border_r |-> DrawBorderRoad,
                  r |-> [k \in 1..4 |->
                            ArmRoad(k, 40000, IF k = 1 THEN fit ELSE "exact_dst")]]]

DrawInputs(max_stop_roads) ==
    {DrawInput(x[1], x[2][1], x[2][2], x[3], x[4], x[5]) :
        x \in {y \in {"StopSign", "Border", "TrafficSignal", "Construction"}
                     \X {<<0, 2>>, <<16000, 2>>, <<70000, 2>>,
                         <<16000, 53073255>>, <<70000, 53073255>>}
                     \X StopSeqs(max_stop_roads)
                     \X {<<FALSE, FALSE, FALSE>>, <<TRUE, FALSE, FALSE>>,
                         <<FALSE, TRUE, FALSE>>, <<FALSE, FALSE, TRUE>>}
                     \X {"exact_dst", "bent"} :
                  /\ y[1] # "StopSign" => y[3] = <<>>
                  /\ y[1] = "Border" => y[2][1] = 0}}

DrawInit ==
    /\ CacheFresh
    /\ traffic_signals = {}
    /\ inp \in DrawInputs(MaxStopRoads)
    /\ out = None
    /\ pc = "start"

\* One call each of DrawIntersection::render and get_unzoomed_outline
CalcDraw ==
    /\ pc = "start"
    /\ out' = [render |-> DrawIntersection_render(inp.i, inp.map),
               outline |-> get_unzoomed_outline(inp.i, inp.map)]
    /\ pc' = "done"
    /\ UNCHANGED inp
    /\ UNCHANGED cacheVars

DrawNext == CalcDraw

SpecDraw == DrawInit /\ [][DrawNext]_vars

-----------------------------------------------------------------------------
(***************************************************************************)
(* CommonState in the sandbox: the game calls event once per input event    *)
(* and launch_info_panel from other states; between the calls a layer is    *)
(* opened or closed elsewhere in the game, the mouse selects another object *)
(* or none, and a secondary map is loaded.  pc names the call that produced *)
(* the state, inp whether the panel and a layer were open when it was       *)
(* called, out what it returned.                                            *)
(***************************************************************************)
ObjectIds == {"a", "b"}

Called(c, a) == [panel |-> ~IsNone(c.info_panel), layer |-> ~IsNone(a.primary.layer)]

EventInputs ==
    [key : {"none", "ctrl_s", "ctrl_j", "ctrl_tab", "K1", "K2"},
     click : {"none", "show info"},
     closed : BOOLEAN,
     maybe_t : {None, Some("transition")}]

CommonInit ==
    /\ CacheFresh
    /\ traffic_signals = {}
    /\ inp = None
    /\ out = None
    /\ pc = "new"

\* One call of CommonState::event
Event(input) ==
    /\ common' = event(common, app, input).common
    /\ app' = event(common, app, input).app
    /\ out' = event(common, app, input).ret
    /\ inp' = Some(Called(common, app))
    /\ pc' = IF event(common, app, input).early THEN "event_debug" ELSE "event"
    /\ UNCHANGED renderVars

\* One call of CommonState::launch_info_panel
LaunchInfoPanel(tab) ==
    /\ common' = launch_info_panel(common, app, tab).common
    /\ app' = launch_info_panel(common, app, tab).app
    /\ out' = None
    /\ inp' = Some(Called(common, app))
    /\ pc' = "launch"
    /\ UNCHANGED renderVars

\* A layer is opened or closed somewhere else in the game.
SetLayer(layer) ==
    /\ app.primary.layer # layer
    /\ app' = [app EXCEPT !.primary.layer = layer]
    /\ pc' = "layer"
    /\ UNCHANGED <<common, inp, out>>
    /\ UNCHANGED renderVars

\* The mouse moves onto another object, or off all of them.
Select(sel) ==
    /\ app.primary.current_selection # sel
    /\ app' = [app EXCEPT !.primary.current_selection = sel]
    /\ pc' = "select"
    /\ UNCHANGED <<common, inp, out>>
    /\ UNCHANGED renderVars

\* A second map is loaded for comparison.
LoadSecondary ==
    /\ IsNone(app.secondary)
    /\ app' = [app EXCEPT !.secondary = Some(PerMap_new)]
    /\ pc' = "secondary"
    /\ UNCHANGED <<common, inp, out>>
    /\ UNCHANGED renderVars

CommonNext ==
    \/ \E input \in EventInputs : Event(input)
    \/ \E tab \in ObjectIds : LaunchInfoPanel(tab)
    \/ \E layer \in {None, Some("layer")} : SetLayer(layer)
    \/ \E sel \in {None} \cup {Some(id) : id \in ObjectIds} : Select(sel)
    \/ LoadSecondary

SpecCommon == CommonInit /\ [][CommonNext]_vars

-----------------------------------------------------------------------------
(***************************************************************************)
(* Claims about the render cache, checked under SpecCache.                  *)
(***************************************************************************)

IsDrawOf(o) == last_op'.op = "draw" /\ last_op'.obj = o

IsClearOf(o) == last_op'.op = "clear" /\ last_op'.obj = o

C1_Inv ==
    \A o \in Objects :
        draw_calls[o] >= 1 => render_calls[o] = 1 /\ ~IsNone(draw_default[o])

C1_Step ==
    \A o \in Objects :
        IsDrawOf(o) =>
            /\ IsNone(draw_default[o]) =>
                   /\ draw_default'[o] = Some(render(o, map_gen))
                   /\ render_calls'[o] = render_calls[o] + 1
            /\ ~IsNone(draw_default[o]) =>
                   /\ draw_default'[o] = draw_default[o]
                   /\ render_calls'[o] = render_calls[o]
            /\ last_op'.redrawn[1] = Unwrap(draw_default'[o])

\* C1: the first draw of an object whose default slot is empty runs render
\* exactly once and stores what it returned; every later draw with no
\* clear_rendering in between runs render zero times, leaves the slot as it
\* is and redraws the stored object (even when the map was edited since):
\* over any run of draws without a clear, render is called exactly once.
C1_CacheIdempotence == [](C1_Inv) /\ [][C1_Step]_vars

\* A second draw reused a drawable rendered from an older map generation.
C1_Witness ==
    \E o \in Objects :
        /\ draw_calls[o] = 2
        /\ render_calls[o] = 1
        /\ last_op.op = "draw" /\ last_op.obj = o
        /\ Unwrap(draw_default[o]).gen # map_gen
        /\ last_op.redrawn[1] = Unwrap(draw_default[o])

C2_Step ==
    \A o \in Objects :
        /\ IsClearOf(o) => IsNone(draw_default'[o])
        /\ draw_default'[o] # draw_default[o] =>
               \/ /\ IsNone(draw_default[o])
                  /\ ~IsNone(draw_default'[o])
                  /\ IsDrawOf(o)
               \/ /\ ~IsNone(draw_default[o])
                  /\ IsNone(draw_default'[o])
                  /\ IsClearOf(o)
        /\ (IsDrawOf(o) /\ draw_calls[o] = 0) =>
               /\ render_calls'[o] = 1
               /\ draw_default'[o] = Some(render(o, map_gen))

\* C2: clear_rendering leaves the default slot empty whatever it held; the
\* slot changes only Empty -> Populated in a draw of that object and
\* Populated -> Empty in a clear_rendering of that object (never by a clock
\* tick, a map edit, or an operation on another object); and the first draw
\* after a clear (or after construction) runs render exactly once, on the
\* map as it is then.
C2_SlotStateMachine == [][C2_Step]_vars

\* An object was drawn, the map edited and the object cleared: the clear
\* dropped a rendering of the map before the edit and left the slot empty.
C2_Witness ==
    \E o \in Objects :
        /\ last_op.op = "clear" /\ last_op.obj = o
        /\ ~IsNone(last_op.held)
        /\ Unwrap(last_op.held).gen # map_gen
        /\ IsNone(draw_default[o])
        /\ draw_calls[o] = 0

C3_Inv ==
    \A i \in Intersections :
        signal_draws[i] >= 1 =>
            /\ signal_calls[i] = 1
            /\ ~IsNone(draw_traffic_signal[i])
            /\ Unwrap(draw_traffic_signal[i]).time = sim_time

C3_Step ==
    \A i \in Intersections :
        /\ signal_draws'[i] = signal_draws[i] + 1 =>
               /\ IsDrawOf(i)
               /\ i \in traffic_signals
               /\ IF IsNone(draw_traffic_signal[i])
                     \/ Unwrap(draw_traffic_signal[i]).time # sim_time
                    THEN /\ signal_calls'[i] = signal_calls[i] + 1
                         /\ Unwrap(draw_traffic_signal'[i]).batch =
                                draw_signal_stage(i, sim_time)
                    ELSE /\ signal_calls'[i] = signal_calls[i]
                         /\ draw_traffic_signal'[i] = draw_traffic_signal[i]
               /\ Unwrap(draw_traffic_signal'[i]).time = sim_time
               /\ last_op'.redrawn[2] = Unwrap(draw_traffic_signal'[i]).batch
        /\ (IsDrawOf(i) /\ signal_draws'[i] = signal_draws[i]) =>
               draw_traffic_signal'[i] = draw_traffic_signal[i]

\* C3: a draw of an intersection that has a traffic signal and is not in the
\* suppress set recomputes the signal overlay if and only if the signal slot
\* is empty or its stored time differs from the current simulation time;
\* after every such draw the stored key is the current simulation time; and
\* any number of such draws at one simulation time compute the overlay
\* exactly once.  (A draw without signal, or suppressed, leaves the slot.)
C3_SignalCache == [](C3_Inv) /\ [][C3_Step]_vars

\* After the clock advanced, the overlay was recomputed once and then reused.
C3_Witness ==
    \E i \in Intersections :
        /\ sim_time >= 1
        /\ signal_draws[i] = 2
        /\ signal_calls[i] = 1
        /\ Unwrap(draw_traffic_signal[i]).time = sim_time

C4_Step ==
    \A o \in Objects :
        (last_op'.op \in {"draw", "clear"} /\ last_op'.obj # o) =>
            /\ draw_default'[o] = draw_default[o]
            /\ render_calls'[o] = render_calls[o]
            /\ draw_calls'[o] = draw_calls[o]
            /\ o \in Intersections =>
                   /\ draw_traffic_signal'[o] = draw_traffic_signal[o]
                   /\ signal_calls'[o] = signal_calls[o]
                   /\ signal_draws'[o] = signal_draws[o]

\* C4: a draw or a clear_rendering of one object leaves every other
\* object's default slot, signal slot and call counts exactly as they were,
\* so in any interleaving each object's slot contents and render count are
\* those of its own calls run alone.
C4_Independence == [][C4_Step]_vars

\* One object kept its populated slot and its counts over a clear of another
\* object that was populated too.
C4_Witness ==
    \E o1, o2 \in Objects :
        /\ o1 # o2
        /\ last_op.op = "clear" /\ last_op.obj = o2
        /\ draw_calls[o1] = 2 /\ render_calls[o1] = 1
        /\ ~IsNone(draw_default[o1])
        /\ IsNone(draw_default[o2])

-----------------------------------------------------------------------------
(***************************************************************************)
(* Claims about the crosswalk loop of render, checked under SpecRender.     *)
(***************************************************************************)
TurnsOf(i) == {i.turns[k] : k \in 1..Len(i.turns)}

CrosswalksOf(i) == {t \in TurnsOf(i) : t.turn_type = "Crosswalk"}

\* A set of crosswalk turns each of which lists exactly the others.
IsSiblingGroup(G) ==
    /\ G # {}
    /\ \A t \in G : t.other_crosswalk_ids = {u.id : u \in G \ {t}}

SmallestOf(G) == CHOOSE t \in G : \A u \in G \ {t} : turn_id_lt(t.id, u.id)

CalledFor == {out.crosswalks[k] : k \in 1..Len(out.crosswalks)}

\* C5: in one render, make_crosswalk is called at most once per turn and
\* only for crosswalk turns; of every group of crosswalk turns that list
\* each other it is called for exactly one, the turn with the smallest id,
\* so a crosswalk without siblings is always rendered.
C5_CrosswalkOwner ==
    pc = "done" =>
        /\ Cardinality(CalledFor) = Len(out.crosswalks)
        /\ CalledFor \subseteq {t.id : t \in CrosswalksOf(inp)}
        /\ \A G \in SUBSET CrosswalksOf(inp) :
               IsSiblingGroup(G) =>
                   CalledFor \cap {t.id : t \in G} = {SmallestOf(G).id}

C5_Witness ==
    /\ pc = "done"
    /\ Len(out.crosswalks) = 2
    /\ \E G, H \in SUBSET CrosswalksOf(inp) :
           /\ IsSiblingGroup(G) /\ Cardinality(G) = 2
           /\ IsSiblingGroup(H) /\ Cardinality(H) = 1
    /\ \E t \in TurnsOf(inp) : t.turn_type = "SharedSidewalkCorner"

-----------------------------------------------------------------------------
(***************************************************************************)
(* Claims about calculate_corners, checked under SpecCorners.               *)
(***************************************************************************)

\* The corner (pair of lanes) a point lies at.
PairOfPt(pt) == (pt[1] + 500000) \div 1000000

\* The polygons of the result that lie at the k-th corner.
PolysOfPair(k) ==
    {j \in 1..Len(out.corners) : PairOfPt(out.corners[j].pts[1]) = k}

NumPairs(i) == Cardinality(DOMAIN i.lanes) \div 2

IsCornerTurn(i, t, src, dst) ==
    /\ t.turn_type = "SharedSidewalkCorner"
    /\ t.id = [src |-> src, dst |-> dst]

\* Lanes 2k-1 and 2k have one width and are joined by turns both ways.
EqualWidthPair(i, k) ==
    /\ i.lanes[2 * k - 1].width = i.lanes[2 * k].width
    /\ \E a, b \in 1..Len(i.turns) :
           /\ IsCornerTurn(i, i.turns[a], 2 * k - 1, 2 * k)
           /\ IsCornerTurn(i, i.turns[b], 2 * k, 2 * k - 1)

\* Both shifts of the geometry of the turn leaving lane 2k-1 succeed.
ShiftsSucceed(i, k) ==
    /\ ~IsNone(PolyLine_shift_left(i.turns[2 * k - 1].geom,
                                   Half(i.lanes[2 * k - 1].width)))
    /\ ~IsNone(PolyLine_shift_right(i.turns[2 * k - 1].geom,
                                    Half(i.lanes[2 * k - 1].width)))

\* C6 as stated: two equal-width lanes joined by SharedSidewalkCorner turns
\* in both directions always get exactly one polygon, never two, never zero.
C6_ExactlyOnePolygon ==
    pc = "done" =>
        \A k \in 1..NumPairs(inp) :
            EqualWidthPair(inp, k) => Cardinality(PolysOfPair(k)) = 1

\* C6 amended: two equal-width lanes joined by SharedSidewalkCorner turns in
\* both directions never get two polygons (only the turn whose source lane
\* ends at this intersection is processed); they get exactly one when the
\* intersection is not a footway and either is a dead-end or both shifts of
\* the turn geometry by half the width succeed, and none otherwise.
C6_AtMostOnePolygon ==
    pc = "done" =>
        \A k \in 1..NumPairs(inp) :
            EqualWidthPair(inp, k) =>
                /\ Cardinality(PolysOfPair(k)) <= 1
                /\ Cardinality(PolysOfPair(k)) = 1
                     <=> /\ ~inp.footway
                         /\ \/ Cardinality(inp.roads) = 1
                            \/ ShiftsSucceed(inp, k)

\* Of two equal-width corners of one intersection, the first got its one
\* polygon and the second, whose geometry cannot be shifted, none.
C6_Witness ==
    /\ pc = "done"
    /\ NumPairs(inp) = 2
    /\ EqualWidthPair(inp, 1) /\ EqualWidthPair(inp, 2)
    /\ ShiftsSucceed(inp, 1) /\ ~ShiftsSucceed(inp, 2)
    /\ Cardinality(PolysOfPair(1)) = 1
    /\ PolysOfPair(2) = {}

\* The turns calculate_corners processes, in the order of the map.
OwnedCornerTurns(i) ==
    SelectSeq(i.turns, LAMBDA t : /\ t.turn_type = "SharedSidewalkCorner"
                                  /\ i.lanes[t.id.src].dst_i = i.id)

\* C7: at an intersection with exactly one connected road the result holds,
\* for every owned SharedSidewalkCorner turn and in their order, exactly one
\* polygon: the turn geometry thickened to the smaller of the two lanes'
\* widths, equal or not, and no point loop or ring.
C7_DeadEnd ==
    (pc = "done" /\ Cardinality(inp.roads) = 1) =>
        /\ Len(out.corners) = Len(OwnedCornerTurns(inp))
        /\ \A j \in 1..Len(out.corners) :
               LET t == OwnedCornerTurns(inp)[j]
               IN  /\ out.corners[j].kind = "thick"
                   /\ out.corners[j].pts = t.geom
                   /\ out.corners[j].width <= inp.lanes[t.id.src].width
                   /\ out.corners[j].width <= inp.lanes[t.id.dst].width
                   /\ out.corners[j].width \in {inp.lanes[t.id.src].width,
                                                inp.lanes[t.id.dst].width}

\* A dead-end whose destination sidewalk is the narrower one, and whose
\* turn geometry could not have been shifted by half the source's width.
C7_Witness ==
    /\ pc = "done"
    /\ Cardinality(inp.roads) = 1
    /\ inp.lanes[1].width > inp.lanes[2].width
    /\ IsNone(PolyLine_shift_right(inp.turns[1].geom, Half(inp.lanes[1].width)))
    /\ Len(out.corners) = 1
    /\ out.corners[1].width = inp.lanes[2].width

\* C8: in the equal-width case (not a dead-end, both shifts succeeding) the
\* polygon's point loop is, in this order: the turn geometry shifted left by
\* width/2, the destination lane's first-line left then right corner, the
\* turn geometry shifted right by width/2 reversed, the source lane's
\* last-line right then left corner, and the first point again.
C8_LoopOrder ==
    pc = "done" =>
        \A k \in 1..NumPairs(inp) :
            (/\ EqualWidthPair(inp, k)
             /\ ~inp.footway
             /\ Cardinality(inp.roads) # 1
             /\ ShiftsSucceed(inp, k)) =>
                \E j \in PolysOfPair(k) :
                    LET pts == out.corners[j].pts
                        g == inp.turns[2 * k - 1].geom
                        n == Len(g)
                        l1 == inp.lanes[2 * k - 1]
                        l2 == inp.lanes[2 * k]
                        h == Half(l1.width)
                    IN  /\ out.corners[j].kind = "loop"
                        /\ Len(pts) = 2 * n + 5
                        /\ SubSeq(pts, 1, n) = Unwrap(PolyLine_shift_left(g, h))
                        /\ pts[n + 1] = Line_shift_left(l2.first_line, h).pt1
                        /\ pts[n + 2] = Line_shift_right(l2.first_line, h).pt1
                        /\ SubSeq(pts, n + 3, 2 * n + 2)
                               = reversed(Unwrap(PolyLine_shift_right(g, h)))
                        /\ pts[2 * n + 3] = Line_shift_right(l1.last_line, h).pt2
                        /\ pts[2 * n + 4] = Line_shift_left(l1.last_line, h).pt2
                        /\ pts[2 * n + 5] = pts[1]

\* A rounded corner was built whose two destination-lane corners differ.
C8_Witness ==
    /\ pc = "done"
    /\ ~inp.footway
    /\ Cardinality(inp.roads) = 2
    /\ EqualWidthPair(inp, 1)
    /\ ShiftsSucceed(inp, 1)
    /\ \E j \in PolysOfPair(1) :
           /\ out.corners[j].kind = "loop"
           /\ Len(out.corners[j].pts) = 11
           /\ out.corners[j].pts[4] # out.corners[j].pts[5]

\* The quadrilateral of the unequal-width case.
QuadOf(l1, l2) ==
    <<Line_shift_left(l2.first_line, Half(l2.width)).pt1,
      Line_shift_right(l2.first_line, Half(l2.width)).pt1,
      Line_shift_right(l1.last_line, Half(l1.width)).pt2,
      Line_shift_left(l1.last_line, Half(l1.width)).pt2,
      Line_shift_left(l2.first_line, Half(l2.width)).pt1>>

\* The owned corner turns whose shift (equal widths) or ring construction
\* (unequal widths) fails.
FailingTurns(i) ==
    {k \in 1..Len(i.turns) :
        /\ ~i.footway
        /\ Cardinality(i.roads) # 1
        /\ i.turns[k].turn_type = "SharedSidewalkCorner"
        /\ i.lanes[i.turns[k].id.src].dst_i = i.id
        /\ LET l1 == i.lanes[i.turns[k].id.src]
               l2 == i.lanes[i.turns[k].id.dst]
           IN  IF l1.width = l2.width
                 THEN \/ IsNone(PolyLine_shift_left(i.turns[k].geom, Half(l1.width)))
                      \/ IsNone(PolyLine_shift_right(i.turns[k].geom, Half(l1.width)))
                 ELSE IsNone(Ring_new(QuadOf(l1, l2)))}

WithoutTurn(i, k) ==
    [i EXCEPT !.turns = SubSeq(@, 1, k - 1) \o SubSeq(@, k + 1, Len(@))]

\* C9: a failed shift of the turn geometry (equal widths) or a failed ring
\* construction (unequal widths) yields no polygon for that turn and changes
\* nothing else: the call returns the polygons it returns for the same
\* intersection without the failing turn.
C9_FailureSkipsOneTurn ==
    pc = "done" =>
        \A k \in FailingTurns(inp) :
            /\ PolysOfPair(PairOfPt(inp.turns[k].geom[1])) = {}
            /\ out.corners = calculate_corners(WithoutTurn(inp, k))

\* The first corner failed and the second one, processed after it, was built.
C9_Witness ==
    /\ pc = "done"
    /\ 1 \in FailingTurns(inp)
    /\ PolysOfPair(1) = {}
    /\ PolysOfPair(2) # {}

-----------------------------------------------------------------------------
(***************************************************************************)
(* Claims about calculate_border_arrows, checked under SpecArrows.          *)
(***************************************************************************)
\* The end of the road's centre line that touches the border.
BorderEnd ==
    IF inp.r.dst_i = inp.i.id
      THEN inp.r.dir_change_pl[Len(inp.r.dir_change_pl)]
      ELSE inp.r.dir_change_pl[1]

DistToBorder(pt) == Abs(pt[1] - BorderEnd[1]) + Abs(pt[2] - BorderEnd[2])

\* An arrow whose head is nearer to the road than its tail.
RoadBound(arrow) == DistToBorder(arrow.pts[2]) < DistToBorder(arrow.pts[1])

VoidBound(arrow) == DistToBorder(arrow.pts[1]) < DistToBorder(arrow.pts[2])

\* C10: calculate_border_arrows returns no polygon when the border has
\* neither incoming nor outgoing lanes, one when exactly one of the two
\* sets is non-empty, and two when both are, the road-bound arrow (the one
\* for the outgoing lanes) first.
C10_ArrowCount ==
    pc = "done" =>
        LET outgoing == inp.i.outgoing_lanes # {}
            incoming == inp.i.incoming_lanes # {}
        IN  /\ Len(out.arrows) = (IF outgoing THEN 1 ELSE 0)
                                 + (IF incoming THEN 1 ELSE 0)
            /\ outgoing => RoadBound(out.arrows[1])
            /\ incoming => VoidBound(out.arrows[Len(out.arrows)])

C10_Witness ==
    /\ pc = "done"
    /\ inp.i.outgoing_lanes # {}
    /\ inp.i.incoming_lanes # {}
    /\ Len(out.arrows) = 2
    /\ RoadBound(out.arrows[1])
    /\ VoidBound(out.arrows[2])

\* The summed width of the road's lanes of one direction, taken lane by lane.
WidthOfDir(r, dir) ==
    LET ks == {k \in 1..Len(r.lanes_ltr) : r.lanes_ltr[k].dir = dir}
        RECURSIVE Sum(_)
        Sum(S) == IF S = {} THEN 0
                  ELSE LET k == CHOOSE x \in S : TRUE
                       IN  r.width[r.lanes_ltr[k].id] + Sum(S \ {k})
    IN  Sum(ks)

\* How far beyond the border end of the road a point lies, along the road.
AlongVoid(pt) ==
    IF inp.r.dir_change_pl[1][2] = inp.r.dir_change_pl[2][2]
      THEN Abs(pt[1] - BorderEnd[1])
      ELSE Abs(pt[2] - BorderEnd[2])

\* C11: the road-bound arrow runs from 9.5 m to 0.5 m outside the road and
\* is a third as thick as width_back when the road's dst_i is this
\* intersection, and as width_fwd otherwise; the void-bound arrow runs from
\* 0.5 m to 9.5 m and is a third as thick as the other directional width;
\* width_fwd + width_back is the sum of all lane widths of the road.
C11_ArrowWidths ==
    pc = "done" =>
        LET at_dst == inp.r.dst_i = inp.i.id
            road_w == WidthOfDir(inp.r, IF at_dst THEN "Back" ELSE "Fwd")
            void_w == WidthOfDir(inp.r, IF at_dst THEN "Fwd" ELSE "Back")
            n == Len(out.arrows)
        IN  /\ inp.i.outgoing_lanes # {} =>
                   /\ AlongVoid(out.arrows[1].pts[1]) = 95000
                   /\ AlongVoid(out.arrows[1].pts[2]) = 5000
                   /\ out.arrows[1].width = DivRound(road_w, 3)
            /\ inp.i.incoming_lanes # {} =>
                   /\ AlongVoid(out.arrows[n].pts[1]) = 5000
                   /\ AlongVoid(out.arrows[n].pts[2]) = 95000
                   /\ out.arrows[n].width = DivRound(void_w, 3)
            /\ directional_width(inp.r, "Fwd", 1)
                   + directional_width(inp.r, "Back", 1)
               = WidthOfDir(inp.r, "Fwd") + WidthOfDir(inp.r, "Back")

\* Both arrows at the dst end of a road whose two directions differ in width.
C11_Witness ==
    /\ pc = "done"
    /\ inp.r.dst_i = inp.i.id
    /\ Len(out.arrows) = 2
    /\ WidthOfDir(inp.r, "Fwd") # WidthOfDir(inp.r, "Back")
    /\ out.arrows[1].width = DivRound(WidthOfDir(inp.r, "Back"), 3)
    /\ out.arrows[2].width = DivRound(WidthOfDir(inp.r, "Fwd"), 3)

-----------------------------------------------------------------------------
(***************************************************************************)
(* Claims about stop_sign_geom, checked under SpecStopSign.                 *)
(***************************************************************************)
EdgeLaneLength == PolyLine_length(inp.edge_lane.lane_center_pts)

\* C12: stop_sign_geom returns None exactly when the edge lane's length
\* minus the 0.1 m trim is at or below EPSILON_DIST, Some (octagon, pole,
\* angle) for every longer edge lane, and it never aborts.
C12_NoRoom ==
    pc = "done" =>
        /\ ~out.aborted
        /\ IsNone(out.value) <=> (EdgeLaneLength - 1000 <= 1)
        /\ ~IsNone(out.value) =>
               /\ Unwrap(out.value).octagon.kind = "octagon"
               /\ Unwrap(out.value).pole.kind = "thick"
               /\ Unwrap(out.value).angle = Unwrap(out.value).octagon.facing

\* The shortest lane with room: 0.0002 m are left after the trim.
C12_Witness ==
    /\ pc = "done"
    /\ EdgeLaneLength = 1002
    /\ ~IsNone(out.value)
    /\ ~out.aborted

\* The end of the trimmed centre line, where the sign would stand unshifted.
TrimmedEnd ==
    LET slice == Unwrap(maybe_exact_slice(inp.edge_lane.lane_center_pts, 0,
                                          EdgeLaneLength - 1000))
    IN  slice[Len(slice)]

\* How far from the trimmed centre line's end the octagon is centred.
SignOffset ==
    Abs(Unwrap(out.value).octagon.center[1] - TrimmedEnd[1])
    + Abs(Unwrap(out.value).octagon.center[2] - TrimmedEnd[2])

\* C13: the last segment of the trimmed edge-lane centre line is shifted
\* sideways by half the edge lane's width before the octagon and the pole
\* are placed.
C13_HalfWidthShift ==
    (pc = "done" /\ ~IsNone(out.value)) =>
        SignOffset = Half(inp.edge_lane.width)

-----------------------------------------------------------------------------
(***************************************************************************)
(* Claims about calculate_corner_curbs, checked under SpecCurbs.            *)
(***************************************************************************)
OtherSide(driving_side) == IF driving_side = "Right" THEN "Left" ELSE "Right"

\* The curbs of a result that lie at the k-th corner.
CurbsOfPair(curbs, k) ==
    {curbs[j] : j \in {x \in 1..Len(curbs) : PairOfPt(curbs[x].pts[1]) = k}}

PtDist(p, q) == Abs(p[1] - q[1]) + Abs(p[2] - q[2])

\* Points p and q lie mirrored about the point c.
Mirrored(p, q, c) == PtAdd(p, q) = PtScale(2, c)

\* C15: for one input geometry, the sideways offset of the curb under
\* right-hand driving is the exact negation of the one under left-hand
\* driving (the shifted lane ends lie mirrored about the lanes' centre-line
\* ends, (width - thickness) / 2 away from them), in the equal-width and in
\* the unequal-width case, and the run-out at each end is as long as the
\* curb is thick.
C15_CurbMirror ==
    pc = "done" =>
        \A k \in 1..NumPairs(inp.i) :
            \A a \in CurbsOfPair(out.curbs, k) :
                LET l1 == inp.i.lanes[2 * k - 1]
                    l2 == inp.i.lanes[2 * k]
                    n == Len(a.pts)
                IN  /\ PtDist(a.pts[1], a.pts[2]) = 2000
                    /\ PtDist(a.pts[n], a.pts[n - 1]) = 2000
                    /\ PtDist(a.pts[2], l1.last_line.pt2)
                           = DivRound(l1.width - 2000, 2)
                    /\ PtDist(a.pts[n - 1], l2.first_line.pt1)
                           = DivRound(l2.width - 2000, 2)
                    /\ \A b \in CurbsOfPair(
                                    calculate_corner_curbs(
                                        inp.i, OtherSide(inp.driving_side)), k) :
                           /\ Mirrored(a.pts[2], b.pts[2], l1.last_line.pt2)
                           /\ Mirrored(a.pts[n - 1], b.pts[Len(b.pts) - 1],
                                       l2.first_line.pt1)

\* An intersection with an equal-width and an unequal-width corner, both of
\* which get a curb under either driving side.
C15_Witness ==
    /\ pc = "done"
    /\ inp.driving_side = "Right"
    /\ NumPairs(inp.i) = 2
    /\ inp.i.lanes[1].width = inp.i.lanes[2].width
    /\ inp.i.lanes[3].width # inp.i.lanes[4].width
    /\ \A k \in 1..2 :
           /\ CurbsOfPair(out.curbs, k) # {}
           /\ CurbsOfPair(calculate_corner_curbs(inp.i, "Left"), k) # {}

\* C16: calculate_corner_curbs has the structure of calculate_corners: the
\* same owned turns get a polygon; at a dead-end the polygon is the turn
\* geometry itself, thickened; otherwise the geometry is offset by the
\* curb thickness, whatever the widths of the lanes.
C16_SameStructure ==
    pc = "done" =>
        \A k \in 1..NumPairs(inp.i) :
            \A a \in CurbsOfPair(out.curbs, k) :
                IF Cardinality(inp.i.roads) = 1
                  THEN a.pts = inp.i.turns[2 * k - 1].geom
                  ELSE /\ PtDist(a.pts[2], inp.i.lanes[2 * k - 1].last_line.pt2)
                              = 2000
                       /\ PtDist(a.pts[Len(a.pts) - 1],
                                 inp.i.lanes[2 * k].first_line.pt1) = 2000

-----------------------------------------------------------------------------
(***************************************************************************)
(* Claims about the driving side, checked under SpecSides.                  *)
(***************************************************************************)
\* The same map with the opposite driving side.
OtherMap == [inp EXCEPT !.driving_side = OtherSide(inp.driving_side)]

\* The point of the border road's centre line abreast of the point pt.
AbreastOnCentre(pt) ==
    LET c == inp.border.r.dir_change_pl
    IN  IF c[1][2] = c[2][2] THEN <<pt[1], c[1][2]>> ELSE <<c[1][1], pt[2]>>

SidedTrimmedEnd ==
    LET pts == inp.edge_lane.lane_center_pts
        slice == Unwrap(maybe_exact_slice(pts, 0, PolyLine_length(pts) - 1000))
    IN  slice[Len(slice)]

\* C14: every sideways offset of the corner, curb, border-arrow and
\* stop-sign calculations changes sign with the driving side: stop_sign_geom
\* shifts right under right-hand and left under left-hand driving, and each
\* calculation run on the same map with the opposite driving side yields
\* the mirrored offset.
C14_AllOffsetsFlip ==
    pc = "done" =>
        LET other == sided_geometry(OtherMap)
            sign == Unwrap(out.stop.value).octagon.center
            shifted_right == project_away(
                                 SidedTrimmedEnd, inp.edge_lane.width,
                                 RightOf(Unwrap(out.stop.value).angle))
        IN  /\ (inp.driving_side = "Right") <=> (sign = shifted_right)
            /\ Mirrored(sign, Unwrap(other.stop.value).octagon.center,
                        SidedTrimmedEnd)
            /\ \A j \in 1..Len(out.curbs) :
                   Mirrored(out.curbs[j].pts[2], other.curbs[j].pts[2],
                            inp.i.lanes[1].last_line.pt2)
            /\ \A j \in 1..Len(out.arrows) :
                   Mirrored(out.arrows[j].pts[1], other.arrows[j].pts[1],
                            AbreastOnCentre(out.arrows[j].pts[1]))
            /\ \A j \in 1..Len(out.corners) :
                   Mirrored(out.corners[j].pts[1], other.corners[j].pts[1],
                            inp.i.turns[1].geom[1])

-----------------------------------------------------------------------------
(***************************************************************************)
(* Claims about make_crosswalk, checked under SpecCrosswalk.                *)
(***************************************************************************)
\* The crossing line of the input, when the turn has one.
HasCrossingLine == Len(inp.turn.geom) >= 3 /\ inp.turn.geom[2] # inp.turn.geom[3]

CrossingLength == Line_length(Line_new(inp.turn.geom[2], inp.turn.geom[3]))

\* L and T of the tiling, from the input alone.
AvailableL == CrossingLength - 2 * SIDEWALK_THICKNESS

TileT == (6 * SIDEWALK_THICKNESS) \div 10

Listed == <<inp.map.node, inp.map.way>> \in RainbowList

\* What the call appended to the batch.
Appended == SubSeq(out.batch, Len(inp.batch) + 1, Len(out.batch))

KeptPrior == SubSeq(out.batch, 1, Len(inp.batch)) = inp.batch

Tiled == pc = "done" /\ ~Listed /\ HasCrossingLine /\ AvailableL > 0

\* C17: a non-rainbow crossing with available length L > 0 gets exactly
\* floor(L/T) stripe pairs, that is 2*floor(L/T) polygons, appended.
C17_StripeCount ==
    Tiled => /\ KeptPrior
             /\ Len(Appended) = 2 * (AvailableL \div TileT)

\* The offsets of the stripe pairs: every other distance asked of the line.
PairOffsets == [k \in 1..(Len(out.asked) \div 2) |-> out.asked[2 * k - 1]]

SpacedByTile ==
    \A k \in 1..(Len(PairOffsets) - 1) : PairOffsets[k + 1] - PairOffsets[k] = TileT

AllOnLine == \A k \in 1..Len(out.asked) :
                 0 <= out.asked[k] /\ out.asked[k] <= CrossingLength

\* C18 as stated: first offset + last offset = line length exactly, pairs
\* one tile spacing apart, every offset asked for within the line.
C18_ExactSymmetry ==
    Tiled => /\ Len(PairOffsets) >= 1
             /\ PairOffsets[1] + PairOffsets[Len(PairOffsets)] = CrossingLength
             /\ SpacedByTile
             /\ AllOnLine

\* C18, amended: first offset + last offset is the line length to within
\* 0.0001 m (the halved remainder is trimmed to that resolution), pairs are
\* one tile spacing apart, and every offset asked for is within the line.
C18_SymmetryWithinResolution ==
    Tiled => /\ Len(PairOffsets) >= 1
             /\ Abs(PairOffsets[1] + PairOffsets[Len(PairOffsets)] - CrossingLength)
                    <= EPSILON_DIST
             /\ SpacedByTile
             /\ AllOnLine
             /\ ~out.aborted

\* Several pairs were drawn on a line whose leftover remainder is odd.
C18_Witness ==
    /\ Tiled
    /\ Len(PairOffsets) >= 3
    /\ (AvailableL % TileT) % 2 = 1

\* C19: off the rainbow list, a turn with fewer than three points, with
\* coinciding second and third points, or with a middle segment no longer
\* than twice the boundary leaves the batch as it was and returns normally.
C19_SkipsSilently ==
    (pc = "done" /\ ~Listed /\ (~HasCrossingLine \/ AvailableL <= 0))
        => out.batch = inp.batch /\ ~out.aborted

\* A non-empty batch came back untouched from a crossing exactly twice the
\* boundary long.
C19_Witness ==
    /\ pc = "done" /\ ~Listed /\ HasCrossingLine /\ AvailableL = 0
    /\ inp.batch # <<>> /\ out.batch = inp.batch

IsStripe(e) == e.color = "general_road_marking"

-----------------------------------------------------------------------------
(***************************************************************************)
(* Claims about get_unzoomed_outline, checked under SpecOutline.            *)
(***************************************************************************)
\* The ring of the input and its edges: consecutive points, and the closing
\* edge from the last distinct point back to the first.
RingPts == Unwrap(inp.i.polygon.ring)

DistinctPts == SubSeq(RingPts, 1, Len(RingPts) - 1)

RingEdge(k) ==
    <<DistinctPts[k], DistinctPts[IF k = Len(DistinctPts) THEN 1 ELSE k + 1]>>

NumRingEdges == Len(DistinctPts)

\* The edge points of a connected road at this intersection, from the road's
\* centre line end and half width (the model's roads run along an axis).
EdgePoints(r) ==
    LET road == inp.map.r[r]
        pts == road.center_pts
        out_of == IF road.src_i = inp.i.id THEN Heading(pts[1], pts[2])
                  ELSE Heading(pts[2], pts[1])
        at == IF road.src_i = inp.i.id THEN pts[1] ELSE pts[2]
    IN  {project_away(at, road.half_width, RightOf(out_of)),
         project_away(at, road.half_width, Opposite(RightOf(out_of)))}

Near(p, q) ==
    LET dx == Abs(p[1] - q[1])
        dy == Abs(p[2] - q[2])
    IN  dx <= 1000 /\ dy <= 1000 /\ dx * dx + dy * dy <= 1000 * 1000

\* Ring edge k is covered by a connected road.
Covered(k) ==
    \E r \in inp.i.roads :
        \E a, b \in EdgePoints(r) :
            a # b /\ Near(RingEdge(k)[1], a) /\ Near(RingEdge(k)[2], b)

UncoveredEdges == SelectSeq([k \in 1..NumRingEdges |-> k], LAMBDA k : ~Covered(k))

OutlineDone == pc = "done" /\ ~IsNone(inp.i.polygon.ring) /\ ~out.aborted

\* C21: every ring edge, the closing one included, is emitted as its own
\* two-point polyline, in ring order, exactly when no connected road's edge
\* pair matches its endpoints within 0.1 m in either order; the number of
\* polylines is the number of ring edges less the covered ones.
C21_UncoveredEdges ==
    OutlineDone =>
        /\ out.value = [n \in 1..Len(UncoveredEdges) |-> RingEdge(UncoveredEdges[n])]
        /\ Len(out.value) = NumRingEdges - Cardinality({k \in 1..NumRingEdges : Covered(k)})

\* The closing edge was emitted while another edge was covered by a road
\* matching it in reverse point order within the tolerance.
C21_Witness ==
    /\ OutlineDone
    /\ ~Covered(NumRingEdges)
    /\ out.value # <<>>
    /\ out.value[Len(out.value)] = RingEdge(NumRingEdges)
    /\ \E k \in 1..NumRingEdges, r \in inp.i.roads :
           /\ Covered(k)
           /\ ~approx_eq_SameOrder(RingEdge(k), Unwrap(road_pair(inp.i, inp.map.r[r])))
           /\ approx_eq(RingEdge(k), Unwrap(road_pair(inp.i, inp.map.r[r])))
           /\ inp.map.r[r].half_width \notin ArmHalves

\* All four arms carry a road whose edge points are exactly on the ring.
AllRoadsMatch ==
    /\ ~IsNone(inp.i.polygon.ring)
    /\ inp.i.roads = 1..4
    /\ \A k \in 1..4 : Len(inp.map.r[k].center_pts) = 2
    /\ \A k \in 1..4 :
           inp.map.r[k].half_width \in ArmHalves
               /\ EdgePoints(k) = {RingPts[n] : n \in 1..Len(RingPts)} \cap EdgePoints(k)

\* Ring edge n runs across the end of the road on arm k.
IsRoadEdge(e, k) == {e[1], e[2]} = EdgePoints(k)

\* The outline computed with road k taken out of the matching set.
WithoutRoad(k) ==
    get_unzoomed_outline(
        [inp.i EXCEPT !.roads = @ \ {k}],
        inp.map).value

\* The polylines of a that are not in b.
Extra(a, b) == SelectSeq(a, LAMBDA e : \A n \in 1..Len(b) : b[n] # e)

NoRoadEdgeEmitted ==
    \A n \in 1..Len(out.value), k \in 1..4 : ~IsRoadEdge(out.value[n], k)

\* C22 as stated: with all four roads matching, no road edge is returned,
\* and taking one road out of the matching set adds exactly two edges.
C22_TwoEdgesPerRoad ==
    (pc = "done" /\ AllRoadsMatch) =>
        /\ ~out.aborted
        /\ NoRoadEdgeEmitted
        /\ \A k \in 1..4 :
               /\ Extra(out.value, WithoutRoad(k)) = <<>>
               /\ Len(Extra(WithoutRoad(k), out.value)) = 2

\* C22, amended: with all four roads matching, no road edge is returned
\* (nothing at all when the ring has no edge between the roads), and taking
\* one road out of the matching set adds exactly one polyline, the ring edge
\* across that road's end.
C22_OneEdgePerRoad ==
    (pc = "done" /\ AllRoadsMatch) =>
        /\ ~out.aborted
        /\ NoRoadEdgeEmitted
        /\ Len(out.value) = NumRingEdges - 4
        /\ \A k \in 1..4 :
               /\ Extra(out.value, WithoutRoad(k)) = <<>>
               /\ Len(WithoutRoad(k)) = Len(out.value) + 1
               /\ Len(Extra(WithoutRoad(k), out.value)) = 1
               /\ IsRoadEdge(Extra(WithoutRoad(k), out.value)[1], k)

\* A square ring of four road edges, all matched, some road starting here:
\* the outline is empty.
C22_Witness ==
    /\ pc = "done"
    /\ AllRoadsMatch
    /\ NumRingEdges = 4
    /\ \E k \in 1..4 : inp.map.r[k].src_i = inp.i.id
    /\ out.value = <<>>

-----------------------------------------------------------------------------
(***************************************************************************)
(* Claims about degenerate inputs, checked under SpecDegenerate.            *)
(***************************************************************************)
Tiny(d) == d <= EPSILON_DIST

\* C23: none of the five calculators emits a polygon for a piece whose
\* governing width or length is at or below EPSILON_DIST: no corner or curb
\* for a lane of such a width, no arrow for such a directional width, no
\* stop sign for such a trimmed lane length, no crosswalk band for such a
\* lane width.
C23_DegenerateSafe ==
    pc = "done" =>
        /\ (Tiny(inp.i.lanes[1].width) \/ Tiny(inp.i.lanes[2].width))
               => out.corners = <<>> /\ out.curbs = <<>>
        /\ \A k \in 1..Len(out.arrows) : ~Tiny(out.arrows[k].width)
        /\ Tiny(PolyLine_length(inp.edge_lane.lane_center_pts) - trim_back)
               => IsNone(out.stop.value)
        /\ Tiny(inp.crossing.map.width) => out.crosswalk.batch = <<>>

-----------------------------------------------------------------------------
(***************************************************************************)
(* Claims about a whole render, checked under SpecDraw.                     *)
(***************************************************************************)
\* C24: no geometric degeneracy aborts a render: whatever the turn
\* geometry, lane width and road width, DrawIntersection::render and
\* get_unzoomed_outline return normally.
C24_NeverAborts ==
    pc = "done" => ~out.render.aborted /\ ~out.outline.aborted

\* The must-stop roads of the input with room for a sign.
RoadsWithSign ==
    {k \in 1..Len(inp.map.stop_sign) :
        /\ inp.map.stop_sign[k].must_stop
        /\ PolyLine_length(inp.map.stop_sign[k].edge_lane.lane_center_pts)
               - trim_back > EPSILON_DIST}

CountOf(color) ==
    Cardinality({n \in 1..Len(out.render.batch) : out.render.batch[n].color = color})

StopSignRendered ==
    pc = "done" /\ inp.i.intersection_type = "StopSign" /\ ~out.render.aborted

\* C25: rendering a StopSign intersection adds an octagon and a pole for a
\* road exactly when the road must stop and stop_sign_geom returns Some for
\* it; a road without room adds nothing and stops nothing else, so there
\* are as many octagons (and poles) as must-stop roads with room.
C25_OctagonPerRoadWithRoom ==
    StopSignRendered =>
        /\ CountOf("stop_sign") = Cardinality(RoadsWithSign)
        /\ CountOf("stop_sign_pole") = Cardinality(RoadsWithSign)
        /\ \A k \in 1..Len(inp.map.stop_sign) :
               LET g == stop_sign_geom(inp.map.stop_sign[k].edge_lane,
                                       inp.map.driving_side).value
               IN  /\ (k \in RoadsWithSign)
                          <=> (inp.map.stop_sign[k].must_stop /\ ~IsNone(g))
                   /\ (k \in RoadsWithSign)
                          => \E n \in 1..(Len(out.render.batch) - 1) :
                                 /\ out.render.batch[n] =
                                        [color |-> "stop_sign", poly |-> Unwrap(g).octagon]
                                 /\ out.render.batch[n + 1] =
                                        [color |-> "stop_sign_pole", poly |-> Unwrap(g).pole]
        /\ inp.i.private => CountOf("private_road") = 1
        /\ CountOf("zoomed_intersection_surface") = 1

\* A must-stop road without room came first, a must-stop road with room
\* after it got its octagon.
C25_Witness ==
    /\ StopSignRendered
    /\ Len(inp.map.stop_sign) = 2
    /\ inp.map.stop_sign[1].must_stop
    /\ 1 \notin RoadsWithSign
    /\ 2 \in RoadsWithSign
    /\ CountOf("stop_sign") = 1

-----------------------------------------------------------------------------
(***************************************************************************)
(* The two slots of DrawIntersection, checked under SpecCache.              *)
(***************************************************************************)
\* The step is a draw of i that also draws its signal overlay.
DrawsSignalOf(i) == IsDrawOf(i) /\ signal_draws'[i] = signal_draws[i] + 1

C26_Step ==
    \A i \in Intersections :
        /\ IsClearOf(i) =>
               /\ draw_traffic_signal'[i] = draw_traffic_signal[i]
               /\ signal_calls'[i] = signal_calls[i]
        /\ (DrawsSignalOf(i)
              /\ IsNone(draw_default[i])
              /\ ~IsNone(draw_traffic_signal[i])
              /\ Unwrap(draw_traffic_signal[i]).time = sim_time) =>
               /\ render_calls'[i] = render_calls[i] + 1
               /\ draw_default'[i] = Some(render(i, map_gen))
               /\ signal_calls'[i] = signal_calls[i]
               /\ draw_traffic_signal'[i] = draw_traffic_signal[i]
               /\ last_op'.redrawn[2] = Unwrap(draw_traffic_signal[i]).batch
        /\ (DrawsSignalOf(i)
              /\ ~IsNone(draw_default[i])
              /\ ~IsNone(draw_traffic_signal[i])
              /\ Unwrap(draw_traffic_signal[i]).time # sim_time) =>
               /\ render_calls'[i] = render_calls[i]
               /\ draw_default'[i] = draw_default[i]
               /\ signal_calls'[i] = signal_calls[i] + 1
               /\ draw_traffic_signal'[i] =
                      Some([time |-> sim_time, batch |-> draw_signal_stage(i, sim_time)])

\* C26: clear_rendering leaves the traffic-signal slot as it is: the next
\* draw after a clear at an unchanged simulation time recomputes the default
\* geometry and reuses the stored overlay, and a draw after the simulation
\* time advanced recomputes the overlay and not the default geometry.
C26_SignalSlotSurvivesClear == [][C26_Step]_vars

\* The only draw of an intersection since its clear was the second draw of
\* its overlay at this simulation time: the default geometry was rendered
\* again, the overlay computed once.
C26_Witness ==
    \E i \in Intersections :
        /\ last_op.op = "draw" /\ last_op.obj = i
        /\ draw_calls[i] = 1 /\ render_calls[i] = 1
        /\ signal_draws[i] = 2 /\ signal_calls[i] = 1
        /\ Len(last_op.redrawn) = 2

-----------------------------------------------------------------------------
(***************************************************************************)
(* Claims about CommonState, checked under SpecCommon.                      *)
(***************************************************************************)
PanelOpen(c) == ~IsNone(c.info_panel)

LayerOpen(a) == ~IsNone(a.primary.layer)

C27_Step ==
    /\ pc' \in {"event", "launch"} => ~(PanelOpen(common') /\ LayerOpen(app'))
    /\ (pc' = "event" /\ LayerOpen(app')) => ~PanelOpen(common')
    /\ (PanelOpen(common') /\ common'.info_panel # common.info_panel) =>
           /\ pc' \in {"event", "launch"}
           /\ ~LayerOpen(app')
    /\ common'.cached_actions # common.cached_actions =>
           /\ pc' = "event"
           /\ ~PanelOpen(common')

\* C27: after an event call that did not return from debug_actions, and
\* after launch_info_panel, the info panel and a layer are not both open:
\* event closes the panel when a layer is open, opening the panel (by the
\* "show info" click or by launch_info_panel) sets the layer to none, and
\* the cached hotkey list changes only in an event that leaves the panel
\* closed.
C27_PanelOrLayer == [][C27_Step]_vars

\* event was called with the panel and a layer both open and closed the
\* panel; with the panel closed it rebuilt the hotkey list.
C27_Witness ==
    /\ pc = "event"
    /\ ~IsNone(inp) /\ Unwrap(inp).panel /\ Unwrap(inp).layer
    /\ ~PanelOpen(common) /\ LayerOpen(app)
    /\ ~IsNone(app.primary.current_selection)
    /\ common.cached_actions = actions(Unwrap(app.primary.current_selection))

====
